---------------------------- MODULE Spec2Model ----------------------------
(***************************************************************************)
(* VideoTitler: the batch orchestrator of videotitler/gui.py (the worker   *)
(* threads, the event queue and the observer that drains it) together with *)
(* the rename resolver of videotitler/rename.py.                           *)
(*                                                                         *)
(* Text is a sequence of one-character strings.  The source's Chinese      *)
(* string constants are written with ASCII stand-ins:                      *)
(*   "pending"     the initial row status      "frame..."   reading frame  *)
(*   "OCR..."      OCR running                 "DeepSeek..." title running *)
(*   "renaming..." single-item rename          "done"       finished       *)
(*   "preview"     dry-run preview             "failed"     failed         *)
(*   "edited"      saved user edit             "to_rename"  title ready    *)
(*   <<"biao","ti">>        the sanitizer's fallback label                 *)
(*   <<"wei","shi","bie">>  rename-all's title for an untitled row         *)
(*   "ZWSP"        the zero-width space U+200B                             *)
(*   "SOH"         the control character U+0001                            *)
(*   "LDQ", "RDQ"  the curly double quotes U+201C and U+201D               *)
(*   "FWCOLON"     the full-width colon U+FF1A                             *)
(*   <<"jin","tian","tian","qi","zhen","hao">>  the reply of the spec's    *)
(*                 title example                                           *)
(***************************************************************************)
EXTENDS Integers, Sequences, FiniteSets, TLC

VARIABLES
    fs,          \* names of the files that exist in the video directory
    rows,        \* self._rows
    queue,       \* self._queue, oldest event first
    stop_event,  \* self._stop_event
    worker,      \* self._worker and the position of its thread
    ui,          \* the option widgets (dry run, start index, padding)
    progress,    \* the progress bar: value and maximum
    emitted,     \* every event put on the queue, in put order
    handled,     \* every event the observer handled, in handling order
    runs,        \* the batch runs started so far: what each started from
    budget,      \* number of button clicks that start a thread or edit a row, still to come
    faults,      \* number of failures the environment has caused so far
    title_threads, \* the threads started by _generate_title_for_selected so far
    ocr,         \* a BaiduOcrClient (its retries, keys and token cache) and the clock
    call         \* the last call of a function of baidu_ocr.py, deepseek.py, rename.py or
                 \* gui.py: its name, its inputs and what it did

vars ==
    <<fs, rows, queue, stop_event, worker, ui, progress, emitted, handled, runs, budget, faults,
      title_threads, ocr, call>>

-----------------------------------------------------------------------------
(* Bounds *)

\* clicks that start a thread or edit a row (Start / Rename-all accepted,
\* title generation, single rename, saved edit) in one behaviour
MaxRuns == 1

\* failures of the environment (the decoder, the two services, the file
\* system) in one behaviour
MaxFaults == 1

-----------------------------------------------------------------------------
(* Text helpers *)

\* F(x) with x evaluated once: a local name bound to a value
With(x, F(_)) == CHOOSE out \in {F(v) : v \in {x}} : TRUE

Whitespace == {" ", "\t", "\n"}

\* the characters _WINDOWS_INVALID_CHARS_RE matches as compiled: the listed
\* ones, "x", and the range "0".."\"
InvalidChars ==
    {"<", ">", ":", "\"", "/", "\\", "|", "?", "*", "x"}
    \cup {"0", "1", "2", "3", "4", "5", "6", "7", "8", "9"}
    \cup {";", "=", "@", "["}
    \cup {"A", "B", "C", "D", "E", "F", "G", "H", "I", "J", "K", "L", "M",
          "N", "O", "P", "Q", "R", "S", "T", "U", "V", "W", "X", "Y", "Z"}

\* s without its leading characters of cs
LStrip(s, cs) ==
    With(s, LAMBDA t :
        IF \A k \in 1..Len(t) : t[k] \in cs THEN <<>>
        ELSE SubSeq(t, CHOOSE k \in 1..Len(t) :
                           t[k] \notin cs /\ \A j \in 1..(k - 1) : t[j] \in cs,
                    Len(t)))

\* s without its trailing characters of cs
RStrip(s, cs) ==
    With(s, LAMBDA t :
        IF \A k \in 1..Len(t) : t[k] \in cs THEN <<>>
        ELSE SubSeq(t, 1, CHOOSE k \in 1..Len(t) :
                              t[k] \notin cs /\ \A j \in (k + 1)..Len(t) : t[j] \in cs))

Strip(s, cs) == RStrip(LStrip(s, cs), cs)

\* re.sub(r"\s+", " ", s): the characters outside whitespace stay, and the
\* first character of every whitespace run becomes the space of the run
CollapseWhitespace(s) ==
    With(s, LAMBDA t :
    With({k \in 1..Len(t) : t[k] \notin Whitespace \/ k = 1 \/ t[k - 1] \notin Whitespace},
         LAMBDA kept :
        [i \in 1..Cardinality(kept) |->
            With(CHOOSE k \in kept : Cardinality({j \in kept : j <= k}) = i, LAMBDA k :
                IF t[k] \in Whitespace THEN " " ELSE t[k])]))

ReplaceChars(s, cs, c) == [i \in 1..Len(s) |-> IF s[i] \in cs THEN c ELSE s[i]]

max_len == 80

fallback == <<"biao", "ti">>

sanitize_filename_component(text) ==
    With(Strip(ReplaceChars(text, {"ZWSP"}, " "), Whitespace), LAMBDA c1 :
    With(CollapseWhitespace(c1), LAMBDA c2 :
    With(ReplaceChars(c2, InvalidChars, " "), LAMBDA c3 :
    With(Strip(c3, {" ", "."}), LAMBDA c4 :
    With(Strip(c4, Whitespace), LAMBDA c5 :
    With(IF c5 = <<>> THEN fallback ELSE c5, LAMBDA c6 :
        IF Len(c6) > max_len THEN RStrip(SubSeq(c6, 1, max_len), Whitespace) ELSE c6))))))

DigitChars == <<"0", "1", "2", "3", "4", "5", "6", "7", "8", "9">>

\* str(n) for n >= 0
RECURSIVE Str(_)
Str(n) == IF n < 10 THEN <<DigitChars[n + 1]>> ELSE Str(n \div 10) \o <<DigitChars[(n % 10) + 1]>>

RECURSIVE ZFill(_, _)
ZFill(s, width) == IF Len(s) >= width THEN s ELSE ZFill(<<"0">> \o s, width)

Max(a, b) == IF a >= b THEN a ELSE b

\* Python's `v or d` for an integer v
OrElse(v, d) == IF v = 0 THEN d ELSE v

\* position of the last "." of a name, 0 when there is none
RECURSIVE LastDot(_, _)
LastDot(name, i) == IF i = 0 THEN 0 ELSE IF name[i] = "." THEN i ELSE LastDot(name, i - 1)

\* Path.suffix and Path.stem of a file name
SuffixPos(name) ==
    LET i == LastDot(name, Len(name))
    IN  IF 1 < i /\ i < Len(name) THEN i ELSE Len(name) + 1

Suffix(name) == SubSeq(name, SuffixPos(name), Len(name))

Stem(name) == SubSeq(name, 1, SuffixPos(name) - 1)

build_target_path(src_path, index, index_padding, title) ==
    With(sanitize_filename_component(title), LAMBDA safe_title :
    With(ZFill(Str(index), Max(1, index_padding)), LAMBDA prefix :
        prefix \o <<"-">> \o safe_title \o Suffix(src_path)))

Candidate(target_path, counter) ==
    Stem(target_path) \o <<"_">> \o Str(counter) \o Suffix(target_path)

RECURSIVE PickFrom(_, _, _)
PickFrom(target_path, counter, files) ==
    IF Candidate(target_path, counter) \notin files
    THEN Candidate(target_path, counter)
    ELSE PickFrom(target_path, counter + 1, files)

\* ignore_path=None, the default every caller in gui.py leaves in place
NoPath == <<>>

\* pick_non_conflicting_path with the counter starting at 1
pick_non_conflicting_path_FromOne(target_path, ignore_path, files) ==
    With(target_path, LAMBDA path :
        IF ignore_path # NoPath /\ path = ignore_path THEN path
        ELSE IF path \notin files THEN path ELSE PickFrom(path, 1, files))

\* pick_non_conflicting_path without the tests of target_path.exists()
pick_non_conflicting_path_NoCheck(target_path, ignore_path, files) == target_path

\* pick_non_conflicting_path against the directory contents `files`
pick_non_conflicting_path(target_path, ignore_path, files) ==
    With(target_path, LAMBDA path :
        IF ignore_path # NoPath /\ path = ignore_path THEN path
        ELSE IF path \notin files THEN path ELSE PickFrom(path, 2, files))

-----------------------------------------------------------------------------
(* The scanner *)

VIDEO_EXTS ==
    {<<".", "m", "p", "4">>, <<".", "m", "o", "v">>, <<".", "m", "k", "v">>,
     <<".", "a", "v", "i">>, <<".", "w", "e", "b", "m">>, <<".", "m", "4", "v">>}

UpperChars == <<"A", "B", "C", "D", "E", "F", "G", "H", "I", "J", "K", "L", "M",
                "N", "O", "P", "Q", "R", "S", "T", "U", "V", "W", "X", "Y", "Z">>

LowerChars == <<"a", "b", "c", "d", "e", "f", "g", "h", "i", "j", "k", "l", "m",
                "n", "o", "p", "q", "r", "s", "t", "u", "v", "w", "x", "y", "z">>

\* the characters of the model's file names, in code point order
CodeOrder ==
    <<" ", "-", ".">> \o DigitChars \o UpperChars \o <<"\\", "_">> \o LowerChars
    \o <<"bie", "wei", "biao", "shi", "ti">>

CharRank(c) == CHOOSE i \in 1..Len(CodeOrder) : CodeOrder[i] = c

LowerChar(c) ==
    IF \E i \in 1..Len(UpperChars) : UpperChars[i] = c
    THEN LowerChars[CHOOSE i \in 1..Len(UpperChars) : UpperChars[i] = c]
    ELSE c

Lower(s) == [i \in 1..Len(s) |-> LowerChar(s[i])]

IsDigitChar(c) == \E i \in 1..Len(DigitChars) : DigitChars[i] = c

\* str.isdigit()
IsDigit(s) == s # <<>> /\ \A i \in 1..Len(s) : IsDigitChar(s[i])

RECURSIVE ParseInt(_)
ParseInt(s) ==
    IF s = <<>> THEN 0
    ELSE 10 * ParseInt(SubSeq(s, 1, Len(s) - 1))
         + ((CHOOSE i \in 1..10 : DigitChars[i] = s[Len(s)]) - 1)

\* length of the match of the pattern \\d+ (a backslash, then one or more "d")
\* at position i of s, 0 when it does not match there
RECURSIVE DRun(_, _)
DRun(s, i) == IF i <= Len(s) /\ s[i] = "d" THEN 1 + DRun(s, i + 1) ELSE 0

MatchLen(s, i) ==
    IF i <= Len(s) /\ s[i] = "\\" /\ DRun(s, i + 1) > 0 THEN 1 + DRun(s, i + 1) ELSE 0

\* re.split(r"(\\d+)", name): the pieces between matches, and the matches
RECURSIVE SplitFrom(_, _, _)
SplitFrom(s, start, i) ==
    IF i > Len(s) THEN <<SubSeq(s, start, Len(s))>>
    ELSE IF MatchLen(s, i) > 0
         THEN <<SubSeq(s, start, i - 1), SubSeq(s, i, i + MatchLen(s, i) - 1)>>
              \o SplitFrom(s, i + MatchLen(s, i), i + MatchLen(s, i))
         ELSE SplitFrom(s, start, i + 1)

KeyPart(part) ==
    IF IsDigit(part) THEN [num |-> TRUE, n |-> ParseInt(part), s |-> <<>>]
    ELSE [num |-> FALSE, n |-> 0, s |-> Lower(part)]

natural_key(name) ==
    LET parts == SplitFrom(name, 1, 1)
    IN  [i \in 1..Len(parts) |-> KeyPart(parts[i])]

RECURSIVE StrLess(_, _)
StrLess(a, b) ==
    IF b = <<>> THEN FALSE
    ELSE IF a = <<>> THEN TRUE
    ELSE IF Head(a) # Head(b) THEN CharRank(Head(a)) < CharRank(Head(b))
    ELSE StrLess(Tail(a), Tail(b))

PartLess(p, q) == IF p.num /\ q.num THEN p.n < q.n ELSE StrLess(p.s, q.s)

\* list comparison of two keys
RECURSIVE KeyLess(_, _)
KeyLess(k1, k2) ==
    IF k2 = <<>> THEN FALSE
    ELSE IF k1 = <<>> THEN TRUE
    ELSE IF Head(k1) # Head(k2) THEN PartLess(Head(k1), Head(k2))
    ELSE KeyLess(Tail(k1), Tail(k2))

IsVideo(name) == Lower(Suffix(name)) \in VIDEO_EXTS

\* the orders videos.sort(key=natural_key) can leave the video files of `files`
\* in (names with equal keys keep the order the directory listing gave them)
_scan_videos(files) ==
    LET videos == {n \in files : IsVideo(n)}
        k == Cardinality(videos)
    IN  {s \in [1..k -> videos] :
            /\ \A i, j \in 1..k : i # j => s[i] # s[j]
            /\ \A i \in 1..k : \A j \in 1..k :
                  i < j => ~KeyLess(natural_key(s[j]), natural_key(s[i]))}

NoText == <<>>

VideoRow(p) ==
    [path |-> p, status |-> "pending", ocr_text |-> "", preview_image |-> "none",
     title |-> NoText, new_name |-> NoText, error |-> NoText]

-----------------------------------------------------------------------------
(* State *)

\* the directories a behaviour may start from
InitialDirs ==
    { {<<"2", "-", "t", ".", "m", "p", "4">>, <<"a", ".", "m", "p", "4">>},
      {<<"1", "-", "t", ".", "m", "p", "4">>, <<"a", ".", "m", "p", "4">>,
       <<"n", ".", "t", "x", "t">>} }

\* the titles the title service may return
Titles == {<<"t">>}

\* the texts the OCR service may return
OcrTexts == {"txt"}

\* the values of the start-index and padding spinboxes
StartIndexes == {1}

Paddings == {1}

NoWorker ==
    [kind |-> "none", alive |-> FALSE, pc |-> "idle", offset |-> 0, n |-> 0,
     cfg |-> [dry_run |-> FALSE, start_index |-> 1, index_padding |-> 1],
     ocr_text |-> "", arg |-> <<>>, detached |-> FALSE, list |-> <<>>, run |-> 0]

\* no BaiduOcrClient constructed yet, the clock at 0
NoClient ==
    [retries |-> 0, retries_arg |-> 0, has_keys |-> FALSE, token |-> "", expires_at_epoch |-> 0,
     now |-> 0]

NoCall == [fn |-> "none"]

\* the state after construction, with the numbers of runs and of
\* environment failures a behaviour may still see
Constructed(run_budget, faults_so_far) ==
    /\ fs \in InitialDirs
    /\ rows = <<>>
    /\ queue = <<>>
    /\ stop_event = FALSE
    /\ worker = NoWorker
    /\ ui \in [dry_run : {FALSE}, start_index : StartIndexes, index_padding : Paddings]
    /\ progress = [value |-> 0, maximum |-> 1]
    /\ emitted = <<>>
    /\ handled = <<>>
    /\ runs = <<>>
    /\ budget = run_budget
    /\ faults = faults_so_far
    /\ title_threads = <<>>
    /\ ocr = NoClient
    /\ call = NoCall

Init == Constructed(MaxRuns, 0)

-----------------------------------------------------------------------------
(* Events *)

Event(kind, path, run, item) ==
    [kind |-> kind, path |-> path, status |-> "", text |-> "", title |-> NoText,
     new_name |-> NoText, error |-> NoText, value |-> 0, run |-> run, item |-> item]

StatusEv(path, status, run, item) == [Event("status", path, run, item) EXCEPT !.status = status]

PreviewEv(path, run, item) == Event("preview", path, run, item)

OcrEv(path, text, run, item) == [Event("ocr", path, run, item) EXCEPT !.text = text]

TitleEv(path, title, new_name, run, item) ==
    [Event("title", path, run, item) EXCEPT !.title = title, !.new_name = new_name]

RenamedEv(old_path, new_path, run, item) ==
    [Event("renamed", old_path, run, item) EXCEPT !.new_name = new_path]

ErrorEv(path, message, run, item) == [Event("error", path, run, item) EXCEPT !.error = message]

ProgressEv(value, run, item) == [Event("progress", NoText, run, item) EXCEPT !.value = value]

DoneEv(message, run, item) == [Event("done", NoText, run, item) EXCEPT !.text = message]

\* self._queue.put, once per event of evs
Put(evs) ==
    /\ queue' = queue \o evs
    /\ emitted' = emitted \o evs

-----------------------------------------------------------------------------
(* The observer: the Tk main loop's callbacks *)

\* index of the first row of rs whose path is `path`, 0 when there is none
RowIndex(rs, path) ==
    IF \E i \in 1..Len(rs) : rs[i].path = path
    THEN CHOOSE i \in 1..Len(rs) : rs[i].path = path /\ \A j \in 1..(i - 1) : rs[j].path # path
    ELSE 0

\* _update_row(path, **upd): the first row carrying `path` takes the fields of upd
_update_row(rs, path, upd) ==
    LET i == RowIndex(rs, path)
    IN  IF i = 0 THEN rs
        ELSE [rs EXCEPT ![i] = [k \in DOMAIN rs[i] |->
                                   IF k \in DOMAIN upd THEN upd[k] ELSE rs[i][k]]]

_on_renamed(rs, old_path, new_path) ==
    LET i == RowIndex(rs, old_path)
    IN  IF i = 0 THEN rs ELSE [rs EXCEPT ![i].path = new_path]

\* the rows after _handle_event(kind, payload)
_handle_event(rs, e) ==
    CASE e.kind = "preview" -> _update_row(rs, e.path, [preview_image |-> "img"])
      [] e.kind = "ocr" -> _update_row(rs, e.path, [ocr_text |-> e.text])
      [] e.kind = "title" -> _update_row(rs, e.path, [title |-> e.title, new_name |-> e.new_name])
      [] e.kind = "renamed" -> _on_renamed(rs, e.path, e.new_name)
      [] e.kind = "status" -> _update_row(rs, e.path, [status |-> e.status])
      [] e.kind = "error" -> _update_row(rs, e.path, [status |-> "failed", error |-> e.error])
      [] OTHER -> rs

\* the progress bar after _handle_event(kind, payload)
HandleProgress(pg, e) == IF e.kind = "progress" THEN [pg EXCEPT !.value = e.value] ELSE pg

RECURSIVE HandleAllRows(_, _)
HandleAllRows(rs, q) ==
    IF q = <<>> THEN rs
    ELSE With(_handle_event(rs, Head(q)), LAMBDA after : HandleAllRows(after, Tail(q)))

RECURSIVE HandleAllProgress(_, _)
HandleAllProgress(pg, q) ==
    IF q = <<>> THEN pg
    ELSE With(HandleProgress(pg, Head(q)), LAMBDA after : HandleAllProgress(after, Tail(q)))

\* a timer tick that handles the first event and discards the others
_drain_queue_LosesEvents ==
    /\ \E first \in {SubSeq(queue, 1, IF queue = <<>> THEN 0 ELSE 1)} :
          /\ rows' = HandleAllRows(rows, first)
          /\ progress' = HandleAllProgress(progress, first)
          /\ handled' = handled \o first
    /\ queue' = <<>>
    /\ UNCHANGED <<fs, stop_event, worker, ui, emitted, runs, budget, faults, title_threads, ocr,
                   call>>

\* one timer tick: get_nowait until Empty, handling each event, then reschedule
_drain_queue ==
    /\ rows' = HandleAllRows(rows, queue)
    /\ progress' = HandleAllProgress(progress, queue)
    /\ handled' = handled \o queue
    /\ queue' = <<>>
    /\ UNCHANGED <<fs, stop_event, worker, ui, emitted, runs, budget, faults, title_threads, ocr,
                   call>>

\* _read_ui_to_config followed by AppConfig(**asdict(cfg))
_snapshot_config == ui

_scan ==
    /\ \E order \in _scan_videos(fs) :
          /\ rows' = [i \in 1..Len(order) |-> VideoRow(order[i])]
          /\ progress' = [value |-> 0, maximum |-> Max(1, Len(order))]
    /\ worker' = IF worker.alive /\ ~worker.detached
                 THEN [worker EXCEPT !.detached = TRUE, !.list = rows]
                 ELSE worker
    /\ UNCHANGED <<fs, queue, stop_event, ui, emitted, handled, runs, budget, faults,
                   title_threads, ocr, call>>

StartThread(kind) ==
    [NoWorker EXCEPT !.kind = kind, !.alive = TRUE, !.pc = "head", !.n = Len(rows),
                     !.cfg = _snapshot_config, !.run = Len(runs) + 1]

\* what a run starts from
RunRecord(kind) ==
    [kind |-> kind, cfg |-> _snapshot_config, fs |-> fs,
     paths |-> [i \in 1..Len(rows) |-> rows[i].path],
     titles |-> [i \in 1..Len(rows) |-> rows[i].title]]

\* Start without the test of the worker at gui.py:624
_start_NoGuard ==
    IF rows = <<>>
    THEN UNCHANGED vars
    ELSE /\ budget > 0
         /\ budget' = budget - 1
         /\ stop_event' = FALSE
         /\ progress' = [value |-> 0, maximum |-> Max(1, Len(rows))]
         /\ worker' = StartThread("_run_worker")
         /\ runs' = Append(runs, RunRecord("_run_worker"))
         /\ UNCHANGED <<fs, rows, queue, ui, emitted, handled, faults, title_threads, ocr, call>>

_start ==
    IF worker.alive \/ rows = <<>>
    THEN UNCHANGED vars
    ELSE /\ budget > 0
         /\ budget' = budget - 1
         /\ stop_event' = FALSE
         /\ progress' = [value |-> 0, maximum |-> Max(1, Len(rows))]
         /\ worker' = StartThread("_run_worker")
         /\ runs' = Append(runs, RunRecord("_run_worker"))
         /\ UNCHANGED <<fs, rows, queue, ui, emitted, handled, faults, title_threads, ocr, call>>

_rename_all ==
    IF worker.alive \/ rows = <<>>
    THEN UNCHANGED vars
    ELSE /\ budget > 0
         /\ budget' = budget - 1
         /\ stop_event' = FALSE
         /\ progress' = [value |-> 0, maximum |-> Max(1, Len(rows))]
         /\ worker' = StartThread("_run_rename_all")
         /\ runs' = Append(runs, RunRecord("_run_rename_all"))
         /\ UNCHANGED <<fs, rows, queue, ui, emitted, handled, faults, title_threads, ocr, call>>

\* a Stop button that toggles the flag
_stop_Toggles ==
    /\ stop_event' = ~stop_event
    /\ UNCHANGED <<fs, rows, queue, worker, ui, progress, emitted, handled, runs, budget, faults,
                   title_threads, ocr, call>>

_stop ==
    /\ stop_event' = TRUE
    /\ UNCHANGED <<fs, rows, queue, worker, ui, progress, emitted, handled, runs, budget, faults,
                   title_threads, ocr, call>>

\* the values the user types into the start-index and padding boxes
SettingValues == {1, 2}

\* the user edits the start index
SetStartIndex ==
    /\ \E v \in SettingValues \ {ui.start_index} : ui' = [ui EXCEPT !.start_index = v]
    /\ UNCHANGED <<fs, rows, queue, stop_event, worker, progress, emitted, handled, runs, budget,
                   faults, title_threads, ocr, call>>

\* the user edits the padding
SetPadding ==
    /\ \E v \in SettingValues \ {ui.index_padding} : ui' = [ui EXCEPT !.index_padding = v]
    /\ UNCHANGED <<fs, rows, queue, stop_event, worker, progress, emitted, handled, runs, budget,
                   faults, title_threads, ocr, call>>

\* the user ticks or unticks the dry-run checkbox
SetDryRun ==
    /\ ui' = [ui EXCEPT !.dry_run = ~ui.dry_run]
    /\ UNCHANGED <<fs, rows, queue, stop_event, worker, progress, emitted, handled, runs, budget,
                   faults, title_threads, ocr, call>>

-----------------------------------------------------------------------------
(* The batch worker thread *)

\* the row the loop variable `row` is bound to: a row of the list the thread
\* iterates, which is self._rows unless a rescan has replaced that list
Row == IF worker.detached THEN worker.list[worker.offset + 1] ELSE rows[worker.offset + 1]

\* the directory after old_path.rename(target)
Renamed(files, old_path, target) == (files \ {old_path}) \cup {target}

FailMessage(stage, exc) == <<stage, "fail", exc>>

ExcMessage(stage) == <<stage, "exc", "traceback">>

\* the environment fails a call that could have succeeded
Fault == faults < MaxFaults /\ faults' = faults + 1

NoFault == faults' = faults

\* the iteration ends without reporting the item's outcome
ItemEnds_NoOutcome(evs) ==
    /\ Put(<<ProgressEv(worker.offset + 1, worker.run, worker.offset)>>)
    /\ worker' = [worker EXCEPT !.offset = worker.offset + 1, !.pc = "head", !.ocr_text = "",
                                !.arg = NoText]

\* the progress event put before the iteration's other events
ItemEnds_ProgressFirst(evs) ==
    /\ Put(<<ProgressEv(worker.offset + 1, worker.run, worker.offset)>> \o evs)
    /\ worker' = [worker EXCEPT !.offset = worker.offset + 1, !.pc = "head", !.ocr_text = "",
                                !.arg = NoText]

\* the except clauses and the finally clause of one loop iteration, then the
\* next iteration
ItemEnds(evs) ==
    /\ Put(evs \o <<ProgressEv(worker.offset + 1, worker.run, worker.offset)>>)
    /\ worker' = [worker EXCEPT !.offset = worker.offset + 1, !.pc = "head", !.ocr_text = "",
                                !.arg = NoText]

\* the failure leaves the loop instead of going on to the next item
ItemFails_Aborts(message) ==
    /\ Put(<<ErrorEv(Row.path, message, worker.run, worker.offset),
             ProgressEv(worker.offset + 1, worker.run, worker.offset)>>)
    /\ worker' = [worker EXCEPT !.pc = "exit", !.ocr_text = "", !.arg = NoText]

ItemFails(message) == ItemEnds(<<ErrorEv(Row.path, message, worker.run, worker.offset)>>)

\* the loop head without the stop check
RunWorkerHead_IgnoresStop ==
    /\ worker.alive /\ worker.kind = "_run_worker" /\ worker.pc = "head"
    /\ worker.offset < worker.n
    /\ Put(<<StatusEv(Row.path, "frame...", worker.run, worker.offset)>>)
    /\ worker' = [worker EXCEPT !.pc = "extract", !.arg = Row.path]
    /\ UNCHANGED <<fs, rows, stop_event, ui, progress, handled, runs, budget, faults,
                   title_threads, ocr, call>>

\* the loop head of _run_worker: the stop check, the first status event, and
\* the evaluation of extract_frame_as_png_bytes' argument
RunWorkerHead ==
    /\ worker.alive /\ worker.kind = "_run_worker" /\ worker.pc = "head"
    /\ worker.offset < worker.n /\ ~stop_event
    /\ Put(<<StatusEv(Row.path, "frame...", worker.run, worker.offset)>>)
    /\ worker' = [worker EXCEPT !.pc = "extract", !.arg = Row.path]
    /\ UNCHANGED <<fs, rows, stop_event, ui, progress, handled, runs, budget, faults,
                   title_threads, ocr, call>>

\* extract_frame_as_png_bytes returns or raises (a file that does not exist
\* cannot be decoded)
RunWorkerExtract ==
    /\ worker.alive /\ worker.kind = "_run_worker" /\ worker.pc = "extract"
    /\ \/ /\ worker.arg \in fs
          /\ NoFault
          /\ Put(<<PreviewEv(Row.path, worker.run, worker.offset),
                   StatusEv(Row.path, "OCR...", worker.run, worker.offset)>>)
          /\ worker' = [worker EXCEPT !.pc = "recognize"]
       \/ /\ IF worker.arg \in fs THEN Fault ELSE NoFault
          /\ ItemFails(FailMessage("frame", "VideoFrameError"))
       \/ Fault /\ ItemFails(ExcMessage("frame"))
    /\ UNCHANGED <<fs, rows, stop_event, ui, progress, handled, runs, budget, title_threads, ocr,
                   call>>

\* ocr_client.recognize returns or raises
RunWorkerRecognize ==
    /\ worker.alive /\ worker.kind = "_run_worker" /\ worker.pc = "recognize"
    /\ \/ \E ocr_text \in OcrTexts \cup {""} :
             /\ IF ocr_text = "" THEN Fault ELSE NoFault
             /\ Put(<<OcrEv(Row.path, ocr_text, worker.run, worker.offset),
                      StatusEv(Row.path, "DeepSeek...", worker.run, worker.offset)>>)
             /\ worker' = [worker EXCEPT !.pc = "title", !.ocr_text = ocr_text]
       \/ Fault /\ ItemFails(FailMessage("OCR", "BaiduOcrError"))
       \/ Fault /\ ItemFails(ExcMessage("OCR"))
    /\ UNCHANGED <<fs, rows, stop_event, ui, progress, handled, runs, budget, title_threads, ocr,
                   call>>

\* extract_title_sentence returned `title`: the rest of the try block
\* the rest of the iteration without the dry_run test
RunWorkerRename_AlwaysRenames(title) ==
    \E old_path \in {Row.path} :
    \E target \in {pick_non_conflicting_path(
                       build_target_path(old_path, OrElse(worker.cfg.start_index, 1) + worker.offset,
                                         worker.cfg.index_padding, title),
                       NoPath, fs)} :
    \E titled \in {<<TitleEv(old_path, title, target, worker.run, worker.offset)>>} :
        \/ /\ old_path \in fs
           /\ fs' = Renamed(fs, old_path, target)
           /\ NoFault
           /\ ItemEnds(titled \o <<RenamedEv(old_path, target, worker.run, worker.offset),
                                   StatusEv(target, "done", worker.run, worker.offset)>>)
        \/ /\ fs' = fs
           /\ IF old_path \in fs THEN Fault ELSE NoFault
           /\ ItemEnds(titled \o <<ErrorEv(old_path, FailMessage("rename", "OSError"),
                                           worker.run, worker.offset)>>)

\* the rest of the iteration reading the widgets instead of the snapshot
RunWorkerRename_ReadsUi(title) ==
    \/ /\ Fault
       /\ fs' = fs
       /\ ItemFails(FailMessage("DeepSeek", "PermissionError"))
    \/ \E old_path \in {Row.path} :
       \E target \in {pick_non_conflicting_path(
                          build_target_path(old_path, OrElse(ui.start_index, 1) + worker.offset,
                                            ui.index_padding, title),
                          NoPath, fs)} :
       \E titled \in {<<TitleEv(old_path, title, target, worker.run, worker.offset)>>} :
           IF ui.dry_run
           THEN /\ ItemEnds(titled \o <<StatusEv(old_path, "done", worker.run, worker.offset)>>)
                /\ fs' = fs
                /\ NoFault
           ELSE \/ /\ old_path \in fs
                   /\ fs' = Renamed(fs, old_path, target)
                   /\ NoFault
                   /\ ItemEnds(titled \o <<RenamedEv(old_path, target, worker.run, worker.offset),
                                           StatusEv(target, "done", worker.run, worker.offset)>>)
                \/ /\ fs' = fs
                   /\ IF old_path \in fs THEN Fault ELSE NoFault
                   /\ ItemEnds(titled \o <<ErrorEv(old_path, FailMessage("rename", "OSError"),
                                                   worker.run, worker.offset)>>)

\* the rest of the iteration with the index left at the start index
RunWorkerRename_CountsFromStart(title) ==
    \/ /\ Fault
       /\ fs' = fs
       /\ ItemFails(FailMessage("DeepSeek", "PermissionError"))
    \/ \E old_path \in {Row.path} :
       \E target \in {pick_non_conflicting_path(
                          build_target_path(old_path, OrElse(worker.cfg.start_index, 1),
                                            worker.cfg.index_padding, title),
                          NoPath, fs)} :
       \E titled \in {<<TitleEv(old_path, title, target, worker.run, worker.offset)>>} :
           IF worker.cfg.dry_run
           THEN /\ ItemEnds(titled \o <<StatusEv(old_path, "done", worker.run, worker.offset)>>)
                /\ fs' = fs
                /\ NoFault
           ELSE \/ /\ old_path \in fs
                   /\ fs' = Renamed(fs, old_path, target)
                   /\ NoFault
                   /\ ItemEnds(titled \o <<RenamedEv(old_path, target, worker.run, worker.offset),
                                           StatusEv(target, "done", worker.run, worker.offset)>>)
                \/ /\ fs' = fs
                   /\ IF old_path \in fs THEN Fault ELSE NoFault
                   /\ ItemEnds(titled \o <<ErrorEv(old_path, FailMessage("rename", "OSError"),
                                                   worker.run, worker.offset)>>)

\* (target.exists() in pick_non_conflicting_path can raise PermissionError,
\* an OSError: stage is still "DeepSeek" there)
RunWorkerRename(title) ==
    \/ /\ Fault
       /\ fs' = fs
       /\ ItemFails(FailMessage("DeepSeek", "PermissionError"))
    \/ \E old_path \in {Row.path} :
       \E target \in {pick_non_conflicting_path(
                          build_target_path(old_path, OrElse(worker.cfg.start_index, 1) + worker.offset,
                                            worker.cfg.index_padding, title),
                          NoPath, fs)} :
       \E titled \in {<<TitleEv(old_path, title, target, worker.run, worker.offset)>>} :
           IF worker.cfg.dry_run
           THEN /\ ItemEnds(titled \o <<StatusEv(old_path, "done", worker.run, worker.offset)>>)
                /\ fs' = fs
                /\ NoFault
           ELSE \/ /\ old_path \in fs
                   /\ fs' = Renamed(fs, old_path, target)
                   /\ NoFault
                   /\ ItemEnds(titled \o <<RenamedEv(old_path, target, worker.run, worker.offset),
                                           StatusEv(target, "done", worker.run, worker.offset)>>)
                \/ /\ fs' = fs
                   /\ IF old_path \in fs THEN Fault ELSE NoFault
                   /\ ItemEnds(titled \o <<ErrorEv(old_path, FailMessage("rename", "OSError"),
                                                   worker.run, worker.offset)>>)

\* the title stage with an extract_title_sentence that accepts an empty OCR
\* text
RunWorkerTitle_AcceptsEmptyOcr ==
    /\ worker.alive /\ worker.kind = "_run_worker" /\ worker.pc = "title"
    /\ \/ \E title \in Titles : RunWorkerRename(title)
       \/ /\ Fault
          /\ ItemFails(FailMessage("DeepSeek", "DeepSeekError"))
          /\ fs' = fs
       \/ /\ Fault
          /\ ItemFails(ExcMessage("DeepSeek"))
          /\ fs' = fs
    /\ UNCHANGED <<rows, stop_event, ui, progress, handled, runs, budget, title_threads, ocr,
                   call>>

\* extract_title_sentence returns or raises (it raises on an empty OCR text),
\* and the rest of the iteration
RunWorkerTitle ==
    /\ worker.alive /\ worker.kind = "_run_worker" /\ worker.pc = "title"
    /\ \/ /\ worker.ocr_text # ""
          /\ \E title \in Titles : RunWorkerRename(title)
       \/ /\ IF worker.ocr_text # "" THEN Fault ELSE NoFault
          /\ ItemFails(FailMessage("DeepSeek", "DeepSeekError"))
          /\ fs' = fs
       \/ /\ worker.ocr_text # ""
          /\ Fault
          /\ ItemFails(ExcMessage("DeepSeek"))
          /\ fs' = fs
    /\ UNCHANGED <<rows, stop_event, ui, progress, handled, runs, budget, title_threads, ocr,
                   call>>

\* the loop ends without the done event
RunWorkerDone_Silent ==
    /\ worker.alive /\ worker.kind = "_run_worker" /\ worker.pc = "head"
    /\ worker.offset = worker.n \/ stop_event
    /\ worker' = [worker EXCEPT !.pc = "exit"]
    /\ UNCHANGED <<fs, rows, queue, stop_event, ui, progress, emitted, handled, runs, budget,
                   faults, title_threads, ocr, call>>

\* the loop of _run_worker ends (the list is exhausted or stop is set)
RunWorkerDone ==
    /\ worker.alive /\ worker.kind = "_run_worker" /\ worker.pc = "head"
    /\ worker.offset = worker.n \/ stop_event
    /\ Put(<<DoneEv("processing ended", worker.run, worker.offset)>>)
    /\ worker' = [worker EXCEPT !.pc = "exit"]
    /\ UNCHANGED <<fs, rows, stop_event, ui, progress, handled, runs, budget, faults,
                   title_threads, ocr, call>>

\* one iteration of _run_rename_all
RunRenameAllItem ==
    /\ worker.alive /\ worker.kind = "_run_rename_all" /\ worker.pc = "head"
    /\ worker.offset < worker.n /\ ~stop_event
    /\ \/ /\ Fault
          /\ fs' = fs
          /\ ItemFails(FailMessage("rename", "PermissionError"))
       \/ \E old_path \in {Row.path}, stripped \in {Strip(Row.title, Whitespace)} :
          \E title \in {IF stripped = <<>> THEN <<"wei", "shi", "bie">> ELSE stripped} :
          \E target \in {pick_non_conflicting_path(
                             build_target_path(old_path, OrElse(worker.cfg.start_index, 1) + worker.offset,
                                               OrElse(worker.cfg.index_padding, 3), title),
                             NoPath, fs)} :
          \E titled \in {<<TitleEv(old_path, title, target, worker.run, worker.offset)>>} :
              IF worker.cfg.dry_run
              THEN /\ ItemEnds(titled \o <<StatusEv(old_path, "preview", worker.run, worker.offset)>>)
                   /\ fs' = fs
                   /\ NoFault
              ELSE \/ /\ old_path \in fs
                      /\ fs' = Renamed(fs, old_path, target)
                      /\ NoFault
                      /\ ItemEnds(titled \o <<RenamedEv(old_path, target, worker.run, worker.offset),
                                              StatusEv(target, "done", worker.run, worker.offset)>>)
                   \/ /\ fs' = fs
                      /\ IF old_path \in fs THEN Fault ELSE NoFault
                      /\ ItemEnds(titled \o <<ErrorEv(old_path, FailMessage("rename", "OSError"),
                                                      worker.run, worker.offset)>>)
    /\ UNCHANGED <<rows, stop_event, ui, progress, handled, runs, budget, title_threads, ocr,
                   call>>

RunRenameAllDone ==
    /\ worker.alive /\ worker.kind = "_run_rename_all" /\ worker.pc = "head"
    /\ worker.offset = worker.n \/ stop_event
    /\ Put(<<DoneEv("renaming ended", worker.run, worker.offset)>>)
    /\ worker' = [worker EXCEPT !.pc = "exit"]
    /\ UNCHANGED <<fs, rows, stop_event, ui, progress, handled, runs, budget, faults,
                   title_threads, ocr, call>>

\* the thread's target function returns: is_alive() becomes false
WorkerExit ==
    /\ worker.alive /\ worker.pc = "exit"
    /\ worker' = [worker EXCEPT !.alive = FALSE, !.pc = "idle"]
    /\ UNCHANGED <<fs, rows, queue, stop_event, ui, progress, emitted, handled, runs, budget,
                   faults, title_threads, ocr, call>>

-----------------------------------------------------------------------------
(* The single-item handlers and the title thread *)

\* _compute_index_for_row for the row at position i of the list
_compute_index_for_row(i) == OrElse(ui.start_index, 1) + (i - 1)

\* the button "generate title from OCR" with row i selected and a non-empty
\* text in the OCR box: the row is marked and a daemon thread is started
_generate_title_for_selected ==
    IF worker.alive
    THEN UNCHANGED vars
    ELSE /\ budget > 0
         /\ budget' = budget - 1
         /\ \E i \in 1..Len(rows), ocr_text \in OcrTexts :
               /\ rows' = _update_row([rows EXCEPT ![i].ocr_text = ocr_text,
                                                   ![i].status = "DeepSeek...",
                                                   ![i].error = NoText],
                                      rows[i].path,
                                      [status |-> "DeepSeek...", ocr_text |-> ocr_text,
                                       error |-> NoText])
               /\ title_threads' = Append(title_threads,
                                          [pc |-> "call", src_path |-> rows[i].path,
                                           index |-> _compute_index_for_row(i),
                                           padding |-> ui.index_padding,
                                           ocr_text |-> ocr_text])
         /\ UNCHANGED <<fs, queue, stop_event, worker, ui, progress, emitted, handled, runs,
                        faults, ocr, call>>

\* the thread's call of extract_title_sentence returns or raises; on return
\* the proposal is computed and the title event is put
TitleThreadCall ==
    \E k \in 1..Len(title_threads) :
        /\ title_threads[k].pc = "call"
        /\ \/ \E title \in Titles :
              \E target \in {pick_non_conflicting_path(
                                 build_target_path(title_threads[k].src_path,
                                                   title_threads[k].index,
                                                   title_threads[k].padding, title),
                                 NoPath, fs)} :
                  /\ NoFault
                  /\ Put(<<TitleEv(title_threads[k].src_path, title, target, 0, 0)>>)
                  /\ title_threads' = [title_threads EXCEPT ![k].pc = "status"]
           \/ /\ Fault
              /\ Put(<<ErrorEv(title_threads[k].src_path, <<"DeepSeekError">>, 0, 0)>>)
              /\ title_threads' = [title_threads EXCEPT ![k].pc = "ended"]
        /\ UNCHANGED <<fs, rows, stop_event, worker, ui, progress, handled, runs, budget, ocr,
                       call>>

\* the thread puts its status event and ends
TitleThreadStatus ==
    \E k \in 1..Len(title_threads) :
        /\ title_threads[k].pc = "status"
        /\ Put(<<StatusEv(title_threads[k].src_path, "to_rename", 0, 0)>>)
        /\ title_threads' = [title_threads EXCEPT ![k].pc = "ended"]
        /\ UNCHANGED <<fs, rows, stop_event, worker, ui, progress, handled, runs, budget, faults,
                       ocr, call>>

\* the texts the user may leave in the OCR box and in the title box
EditedOcrTexts == OcrTexts \cup {""}

EditedTitles == Titles \cup {NoText}

\* the button "save OCR edit" with row i selected
_save_ocr_edit ==
    /\ budget > 0
    /\ budget' = budget - 1
    /\ \E i \in 1..Len(rows), text \in EditedOcrTexts :
          rows' = _update_row([rows EXCEPT ![i].ocr_text = text, ![i].error = NoText,
                                          ![i].status = "edited"],
                             rows[i].path,
                             [status |-> "edited", ocr_text |-> text, error |-> NoText])
    /\ UNCHANGED <<fs, queue, stop_event, worker, ui, progress, emitted, handled, runs, faults,
                   title_threads, ocr, call>>

\* row.new_name after _update_new_name_preview(row) for the row at position i
\* with the title `title`
_update_new_name_preview(i, title) ==
    IF Strip(title, Whitespace) = <<>> THEN NoText
    ELSE build_target_path(rows[i].path, _compute_index_for_row(i), ui.index_padding, title)

\* the button "save title" with row i selected
_save_title_edit ==
    /\ budget > 0
    /\ budget' = budget - 1
    /\ \E i \in 1..Len(rows), title \in EditedTitles :
       \E new_name \in {_update_new_name_preview(i, title)} :
          rows' = _update_row([rows EXCEPT ![i].title = title, ![i].new_name = new_name,
                                          ![i].error = NoText, ![i].status = "edited"],
                             rows[i].path,
                             [status |-> "edited", title |-> title, new_name |-> new_name,
                              error |-> NoText])
    /\ UNCHANGED <<fs, queue, stop_event, worker, ui, progress, emitted, handled, runs, faults,
                   title_threads, ocr, call>>

\* the button "rename this one" with row i selected and a non-empty title in
\* the title box
_rename_selected ==
    IF worker.alive
    THEN UNCHANGED vars
    ELSE /\ budget > 0
         /\ budget' = budget - 1
         /\ \E i \in 1..Len(rows), title \in Titles :
            \E old_path \in {rows[i].path} :
            \E target \in {pick_non_conflicting_path(
                               build_target_path(old_path, _compute_index_for_row(i),
                                                 ui.index_padding, title),
                               NoPath, fs)} :
            \E titled \in {[rows EXCEPT ![i].title = title, ![i].new_name = target]} :
                IF ui.dry_run
                THEN /\ rows' = _update_row([titled EXCEPT ![i].status = "preview"], old_path,
                                            [status |-> "preview", title |-> title,
                                             new_name |-> target])
                     /\ UNCHANGED <<fs, queue, emitted, faults, ocr, call>>
                ELSE \E shown \in {_update_row(titled, old_path,
                                               [status |-> "renaming...", title |-> title,
                                                new_name |-> target])} :
                     \/ /\ old_path \in fs
                        /\ NoFault
                        /\ fs' = Renamed(fs, old_path, target)
                        /\ Put(<<RenamedEv(old_path, target, 0, 0),
                                 StatusEv(target, "done", 0, 0)>>)
                        /\ rows' = [shown EXCEPT ![i].path = target, ![i].status = "done",
                                                 ![i].error = NoText]
                     \/ /\ IF old_path \in fs THEN Fault ELSE NoFault
                        /\ rows' = _update_row([shown EXCEPT ![i].error = <<"OSError">>,
                                                             ![i].status = "failed"],
                                               old_path,
                                               [status |-> "failed", error |-> <<"OSError">>])
                        /\ UNCHANGED <<fs, queue, emitted, ocr, call>>
         /\ UNCHANGED <<stop_event, worker, ui, progress, handled, runs, title_threads, ocr,
                        call>>

-----------------------------------------------------------------------------
(* The HTTP clients: baidu_ocr.py and deepseek.py *)

\* largest value of the retries argument
MaxRetries == 4

\* the clock stops here
MaxTime == 3

\* what one HTTP attempt can end in: a decoded JSON payload, a
\* requests.RequestException, or a ValueError that is not one
AttemptOutcomes == {"ok", "RequestException", "ValueError"}

\* the values of expires_in a token reply carries
ExpiresIn == {0, 60, 61, 62}

\* the loop that gives up one attempt early
RECURSIVE RetryLoop_GivesUpEarly(_, _, _)
RetryLoop_GivesUpEarly(retries, outcomes, attempt) ==
    IF outcomes[attempt + 1] = "ok"
    THEN [attempts |-> attempt + 1, raised |-> FALSE, cause |-> 0, slept |-> 0, waits |-> <<>>,
          trace |-> SubSeq(outcomes, 1, attempt + 1)]
    ELSE IF outcomes[attempt + 1] = "ValueError" \/ attempt + 2 >= retries
    THEN [attempts |-> attempt + 1, raised |-> TRUE, cause |-> attempt + 1, slept |-> 0, waits |-> <<>>,
          trace |-> SubSeq(outcomes, 1, attempt + 1)]
    ELSE With(RetryLoop_GivesUpEarly(retries, outcomes, attempt + 1), LAMBDA rest :
             [rest EXCEPT !.slept = rest.slept + 2 ^ attempt,
                                      !.waits = <<2 ^ attempt>> \o rest.waits])

\* the loop with the sleep placed before the test of the last attempt
RECURSIVE RetryLoop_SleepsAfterLast(_, _, _)
RetryLoop_SleepsAfterLast(retries, outcomes, attempt) ==
    IF outcomes[attempt + 1] = "ok"
    THEN [attempts |-> attempt + 1, raised |-> FALSE, cause |-> 0, slept |-> 0, waits |-> <<>>,
          trace |-> SubSeq(outcomes, 1, attempt + 1)]
    ELSE IF outcomes[attempt + 1] = "ValueError"
    THEN [attempts |-> attempt + 1, raised |-> TRUE, cause |-> attempt + 1, slept |-> 0,
          waits |-> <<>>, trace |-> SubSeq(outcomes, 1, attempt + 1)]
    ELSE IF attempt + 1 >= retries
    THEN [attempts |-> attempt + 1, raised |-> TRUE, cause |-> attempt + 1,
          slept |-> 2 ^ attempt, waits |-> <<2 ^ attempt>>,
          trace |-> SubSeq(outcomes, 1, attempt + 1)]
    ELSE With(RetryLoop_SleepsAfterLast(retries, outcomes, attempt + 1), LAMBDA rest :
             [rest EXCEPT !.slept = rest.slept + 2 ^ attempt,
                          !.waits = <<2 ^ attempt>> \o rest.waits])

\* the for/try loop shared by _get_access_token, recognize and
\* extract_title_sentence, from attempt `attempt` (0-based) on, when the k-th
\* attempt ends in outcomes[k]: the number of requests made, whether the
\* domain error is raised and with which attempt's exception as its cause
\* (1-based, 0 for none), the seconds slept in all and before each further
\* attempt, and how the attempts made ended
RECURSIVE RetryLoop(_, _, _)
RetryLoop(retries, outcomes, attempt) ==
    IF attempt >= retries
    THEN [attempts |-> attempt, raised |-> TRUE, cause |-> 0, slept |-> 0, waits |-> <<>>,
          trace |-> SubSeq(outcomes, 1, attempt)]
    ELSE CASE outcomes[attempt + 1] = "ok" ->
                [attempts |-> attempt + 1, raised |-> FALSE, cause |-> 0, slept |-> 0, waits |-> <<>>,
                 trace |-> SubSeq(outcomes, 1, attempt + 1)]
           [] outcomes[attempt + 1] = "ValueError" ->
                [attempts |-> attempt + 1, raised |-> TRUE, cause |-> attempt + 1, slept |-> 0, waits |-> <<>>,
                 trace |-> SubSeq(outcomes, 1, attempt + 1)]
           [] OTHER ->
                IF attempt + 1 >= retries
                THEN [attempts |-> attempt + 1, raised |-> TRUE, cause |-> attempt + 1,
                      slept |-> 0, waits |-> <<>>, trace |-> SubSeq(outcomes, 1, attempt + 1)]
                ELSE With(RetryLoop(retries, outcomes, attempt + 1), LAMBDA rest :
                         [rest EXCEPT !.slept = rest.slept + 2 ^ attempt,
                                      !.waits = <<2 ^ attempt>> \o rest.waits])

\* every way the loop can go with `retries` attempts allowed
Loops(retries) == {RetryLoop(retries, outcomes, 0) : outcomes \in [1..retries -> AttemptOutcomes]}

\* a loop that was not entered
NoLoop == [attempts |-> 0, raised |-> FALSE, cause |-> 0, slept |-> 0, waits |-> <<>>, trace |-> <<>>]

Requests(kind, n) == [k \in 1..n |-> kind]

\* what a call of recognize did: the HTTP requests it made, in order, where
\* it raised BaiduOcrError ("" when it returned), the attempt whose exception
\* is the error's cause, and how the attempts of its two loops ended
Outcome(requests, raised_in, cause, token_trace, ocr_trace) ==
    [requests |-> requests, raised_in |-> raised_in, cause |-> cause,
     token_trace |-> token_trace, ocr_trace |-> ocr_trace,
     token_waits |-> <<>>, ocr_waits |-> <<>>, expires_in |-> -1]

\* the same with the sleeps of the token loop
Slept(out, waits) == [out EXCEPT !.token_waits = waits]

\* BaiduOcrClient(api_key, secret_key, retries=retries)
BaiduOcrClient ==
    /\ ocr.retries = 0
    /\ \E retries \in 0..MaxRetries, has_keys \in BOOLEAN :
          ocr' = [ocr EXCEPT !.retries = Max(1, retries), !.retries_arg = retries,
                             !.has_keys = has_keys]
    /\ UNCHANGED <<fs, rows, queue, stop_event, worker, ui, progress, emitted, handled, runs,
                   budget, faults, title_threads, call>>

\* time.time() grows
Tick ==
    /\ ocr.now < MaxTime
    /\ ocr' = [ocr EXCEPT !.now = ocr.now + 1]
    /\ UNCHANGED <<fs, rows, queue, stop_event, worker, ui, progress, emitted, handled, runs,
                   budget, faults, title_threads, call>>

\* the cached token is usable at the client's clock
TokenFresh(c) == c.token # "" /\ c.now < c.expires_at_epoch

\* _get_access_token without the test of the cache at baidu_ocr.py:74
_get_access_token_NoCache(c, token_loop, has_token, expires_in) ==
    IF ~c.has_keys THEN [client |-> c, out |-> Outcome(<<>>, "keys", 0, <<>>, <<>>)]
    ELSE With(token_loop, LAMBDA loop :
             IF loop.raised \/ ~has_token
             THEN [client |-> c,
                   out |-> Slept(Outcome(Requests("token", loop.attempts), "token", loop.cause,
                                         loop.trace, <<>>), loop.waits)]
             ELSE [client |-> [c EXCEPT !.token = "tok",
                                        !.expires_at_epoch = c.now + Max(0, expires_in - 60)],
                   out |-> [Slept(Outcome(Requests("token", loop.attempts), "", 0,
                                          loop.trace, <<>>), loop.waits)
                               EXCEPT !.expires_in = expires_in]])

\* _get_access_token with "now + expires_in" at baidu_ocr.py:113
_get_access_token_NoGuardBand(c, token_loop, has_token, expires_in) ==
    IF TokenFresh(c) THEN [client |-> c, out |-> Outcome(<<>>, "", 0, <<>>, <<>>)]
    ELSE IF ~c.has_keys THEN [client |-> c, out |-> Outcome(<<>>, "keys", 0, <<>>, <<>>)]
    ELSE With(token_loop, LAMBDA loop :
             IF loop.raised \/ ~has_token
             THEN [client |-> c,
                   out |-> Slept(Outcome(Requests("token", loop.attempts), "token", loop.cause,
                                         loop.trace, <<>>), loop.waits)]
             ELSE [client |-> [c EXCEPT !.token = "tok",
                                        !.expires_at_epoch = c.now + expires_in],
                   out |-> [Slept(Outcome(Requests("token", loop.attempts), "", 0,
                                          loop.trace, <<>>), loop.waits)
                               EXCEPT !.expires_in = expires_in]])

\* _get_access_token on client c when its request loop goes as `token_loop`
\* and the reply carries a token or not, with expires_in: the client
\* afterwards and what the call did
_get_access_token(c, token_loop, has_token, expires_in) ==
    IF TokenFresh(c) THEN [client |-> c, out |-> Outcome(<<>>, "", 0, <<>>, <<>>)]
    ELSE IF ~c.has_keys THEN [client |-> c, out |-> Outcome(<<>>, "keys", 0, <<>>, <<>>)]
    ELSE With(token_loop, LAMBDA loop :
             IF loop.raised
             THEN [client |-> c,
                   out |-> Slept(Outcome(Requests("token", loop.attempts), "token", loop.cause,
                                         loop.trace, <<>>), loop.waits)]
             ELSE IF ~has_token
             THEN [client |-> c,
                   out |-> Slept(Outcome(Requests("token", loop.attempts), "token_reply", 0,
                                         loop.trace, <<>>), loop.waits)]
             ELSE [client |-> [c EXCEPT !.token = "tok",
                                        !.expires_at_epoch = c.now + Max(0, expires_in - 60)],
                   out |-> [Slept(Outcome(Requests("token", loop.attempts), "", 0,
                                          loop.trace, <<>>), loop.waits)
                               EXCEPT !.expires_in = expires_in]])

\* recognize that empties the token cache when the recognition fails
recognize_DropsTokenOnFailure(c, token_loop, has_token, expires_in, endpoint_known, ocr_loop, error_code) ==
    With(_get_access_token(c, token_loop, has_token, expires_in), LAMBDA t :
        IF t.out.raised_in # "" THEN t
        ELSE IF ~endpoint_known THEN [t EXCEPT !.out.raised_in = "endpoint"]
        ELSE With(ocr_loop, LAMBDA loop :
                 [t EXCEPT !.client = IF loop.raised \/ error_code
                                      THEN [t.client EXCEPT !.token = "", !.expires_at_epoch = 0]
                                      ELSE t.client,
                           !.out.requests = t.out.requests \o Requests("ocr", loop.attempts),
                           !.out.raised_in = IF loop.raised THEN "ocr"
                                             ELSE IF error_code THEN "error_code" ELSE "",
                           !.out.cause = loop.cause,
                           !.out.ocr_trace = loop.trace,
                           !.out.ocr_waits = loop.waits]))

\* recognize on client c: the token, the endpoint test, the request loop and
\* the error_code test
recognize(c, token_loop, has_token, expires_in, endpoint_known, ocr_loop, error_code) ==
    With(_get_access_token(c, token_loop, has_token, expires_in), LAMBDA t :
        IF t.out.raised_in # "" THEN t
        ELSE IF ~endpoint_known THEN [t EXCEPT !.out.raised_in = "endpoint"]
        ELSE With(ocr_loop, LAMBDA loop :
                 [t EXCEPT !.out.requests = t.out.requests \o Requests("ocr", loop.attempts),
                           !.out.raised_in = IF loop.raised THEN "ocr"
                                             ELSE IF error_code THEN "error_code" ELSE "",
                           !.out.cause = loop.cause,
                           !.out.ocr_trace = loop.trace,
                           !.out.ocr_waits = loop.waits]))

\* what the token endpoint can answer to a call: how the request loop goes,
\* and for a loop that got a reply, whether it carries a token and its
\* expires_in
TokenReplies(retries) ==
    {<<loop, FALSE, 0>> : loop \in Loops(retries)}
        \cup {<<loop, TRUE, e>> : loop \in {l \in Loops(retries) : ~l.raised}, e \in ExpiresIn}

\* the endpoint argument and what the OCR endpoint can answer: how the
\* request loop goes, and for a loop that got a reply, whether it carries an
\* error_code
OcrReplies(retries) ==
    {<<FALSE, NoLoop, FALSE>>}
        \cup {<<TRUE, loop, FALSE>> : loop \in Loops(retries)}
        \cup {<<TRUE, loop, TRUE>> : loop \in {l \in Loops(retries) : ~l.raised}}

\* one call of recognize on the client
CallRecognize ==
    /\ ocr.retries > 0
    /\ \E t \in TokenReplies(ocr.retries), o \in OcrReplies(ocr.retries) :
          \E r \in {recognize(ocr, t[1], t[2], t[3], o[1], o[2], o[3])} :
             /\ ocr' = r.client
             /\ call' = [fn |-> "recognize", retries |-> ocr.retries,
                         retries_arg |-> ocr.retries_arg, out |-> r.out]
    /\ UNCHANGED <<fs, rows, queue, stop_event, worker, ui, progress, emitted, handled, runs,
                   budget, faults, title_threads>>

\* the line separators of str.splitlines in the model's alphabet
LineBreaks == {"\n"}

\* text.splitlines(), from the line being read (`line`) on
RECURSIVE SplitLines(_, _)
SplitLines(text, line) ==
    IF text = <<>> THEN (IF line = <<>> THEN <<>> ELSE <<line>>)
    ELSE IF Head(text) \in LineBreaks THEN <<line>> \o SplitLines(Tail(text), <<>>)
    ELSE SplitLines(Tail(text), Append(line, Head(text)))

RECURSIVE FirstNonEmpty(_)
FirstNonEmpty(lines) ==
    IF lines = <<>> THEN <<>>
    ELSE With(Strip(Head(lines), Whitespace), LAMBDA stripped :
             IF stripped # <<>> THEN stripped ELSE FirstNonEmpty(Tail(lines)))

_first_non_empty_line(text) == FirstNonEmpty(SplitLines(text, <<>>))

\* the class ["“”'\s] of the first cleanup; "LDQ" and "RDQ" are the curly
\* double quotes U+201C and U+201D
QuoteChars == {"\"", "LDQ", "RDQ", "'"} \cup Whitespace

\* the labels of the second cleanup, lower case
Labels == {<<"biao", "ti">>, <<"t", "i", "t", "l", "e">>}

\* the class [:：\s] of the second cleanup; "FWCOLON" is the full-width colon
\* U+FF1A
LabelSeparators == {":", "FWCOLON"} \cup Whitespace

IsPrefix(p, s) == Len(p) <= Len(s) /\ SubSeq(s, 1, Len(p)) = p

\* re.sub(r"^(标题|title)[:：\s]+", "", title, flags=re.IGNORECASE)
StripLabel(title) ==
    IF \E l \in Labels :
          /\ IsPrefix(l, Lower(title))
          /\ Len(title) > Len(l) /\ title[Len(l) + 1] \in LabelSeparators
    THEN With(CHOOSE l \in Labels : IsPrefix(l, Lower(title)), LAMBDA l :
             LStrip(SubSeq(title, Len(l) + 1, Len(title)), LabelSeparators))
    ELSE title

\* the cleanup without the label step of deepseek.py:101
CleanTitle_KeepsLabel(content) ==
    Strip(Strip(_first_non_empty_line(content), QuoteChars), Whitespace)

\* deepseek.py:97-102
CleanTitle(content) ==
    With(Strip(Strip(_first_non_empty_line(content), QuoteChars), Whitespace), LAMBDA title :
        Strip(StripLabel(title), Whitespace))

\* extract_title_sentence: the argument tests, the request loop going as
\* `loop`, the reply holding a content or not, and the cleanup of the content
\* no title: the call raised
Raised(raised_in, loop) == [raised_in |-> raised_in, cause |-> loop.cause, loop |-> loop, title |-> <<>>]

\* extract_title_sentence with the tests of the prompts moved before those of
\* the key and the OCR text
extract_title_sentence_PromptsFirst(api_key, ocr_text, system_prompt, user_prompt_template, loop, has_content, content) ==
    IF Strip(system_prompt, Whitespace) = <<>> THEN Raised("system_prompt", NoLoop)
    ELSE IF Strip(user_prompt_template, Whitespace) = <<>>
    THEN Raised("user_prompt_template", NoLoop)
    ELSE IF Strip(api_key, Whitespace) = <<>> THEN Raised("api_key", NoLoop)
    ELSE IF Strip(ocr_text, Whitespace) = <<>> THEN Raised("ocr_text", NoLoop)
    ELSE IF loop.raised THEN Raised("request", loop)
    ELSE IF ~has_content THEN Raised("content", loop)
    ELSE [raised_in |-> "", cause |-> 0, loop |-> loop, title |-> CleanTitle(content)]

extract_title_sentence(api_key, ocr_text, system_prompt, user_prompt_template, loop, has_content, content) ==
    IF Strip(api_key, Whitespace) = <<>> THEN Raised("api_key", NoLoop)
    ELSE IF Strip(ocr_text, Whitespace) = <<>> THEN Raised("ocr_text", NoLoop)
    ELSE IF Strip(system_prompt, Whitespace) = <<>> THEN Raised("system_prompt", NoLoop)
    ELSE IF Strip(user_prompt_template, Whitespace) = <<>>
    THEN Raised("user_prompt_template", NoLoop)
    ELSE IF loop.raised THEN Raised("request", loop)
    ELSE IF ~has_content THEN Raised("content", loop)
    ELSE [raised_in |-> "", cause |-> 0, loop |-> loop, title |-> CleanTitle(content)]

\* the reply contents a call of extract_title_sentence meets here
ReplyContents == {<<"t">>, <<"\"", "biao", "ti", "FWCOLON", "t", "\"">>}

\* an argument that is set and one that is not
Given == {<<>>, <<"k">>}

\* what the chat endpoint can answer to a call: how the request loop goes,
\* and for a loop that got a reply, whether it carries a message content and
\* which
TitleReplies(retries) ==
    {<<loop, FALSE, <<>> >> : loop \in Loops(retries)}
        \cup {<<loop, TRUE, c>> : loop \in {l \in Loops(retries) : ~l.raised}, c \in ReplyContents}

\* one call of extract_title_sentence
CallExtractTitle ==
    /\ call.fn # "extract_title_sentence"
    /\ \E retries \in 0..MaxRetries, api_key \in Given, ocr_text \in Given,
          system_prompt \in Given, user_prompt_template \in Given :
          \E r \in TitleReplies(Max(1, retries)) :
             call' = [fn |-> "extract_title_sentence", retries |-> Max(1, retries),
                      retries_arg |-> retries,
                      out |-> extract_title_sentence(api_key, ocr_text, system_prompt,
                                                     user_prompt_template, r[1], r[2], r[3])]
    /\ UNCHANGED <<fs, rows, queue, stop_event, worker, ui, progress, emitted, handled, runs,
                   budget, faults, title_threads, ocr>>

\* the values of a text argument: empty, blank, set, and set inside blanks
Arguments == {<<>>, <<" ">>, <<"k">>, <<" ", "k", "\t">>}

\* one call of extract_title_sentence with its text arguments, retries = 1
CallExtractTitleWith ==
    /\ call = NoCall
    /\ \E api_key \in Arguments, ocr_text \in Arguments, system_prompt \in Arguments,
          user_prompt_template \in Arguments, r \in TitleReplies(1) :
          call' = [fn |-> "extract_title_sentence", retries |-> 1, retries_arg |-> 1,
                   api_key |-> api_key, ocr_text |-> ocr_text,
                   system_prompt |-> system_prompt,
                   user_prompt_template |-> user_prompt_template,
                   out |-> extract_title_sentence(api_key, ocr_text, system_prompt,
                                                  user_prompt_template, r[1], r[2], r[3])]
    /\ UNCHANGED <<fs, rows, queue, stop_event, worker, ui, progress, emitted, handled, runs,
                   budget, faults, title_threads, ocr>>

-----------------------------------------------------------------------------
(* The frame extractor: video.py *)

\* how one run of ffmpeg can end: subprocess.TimeoutExpired, a non-zero return
\* code, return code 0 with an empty stdout, return code 0 with bytes
RunOutcomes == {"timeout", "nonzero", "empty", "bytes"}

\* run_extract(args) when the process ends as `outcome`: the error raised, ""
\* for none, and whether stdout holds bytes
run_extract(outcome) ==
    CASE outcome = "timeout" -> [raised |-> "timeout", bytes |-> FALSE]
      [] outcome = "nonzero" -> [raised |-> "returncode", bytes |-> FALSE]
      [] outcome = "empty" -> [raised |-> "", bytes |-> FALSE]
      [] OTHER -> [raised |-> "", bytes |-> TRUE]

\* what a call did: the error it raised, "" for none, and the ffmpeg runs
\* it made, in order
Frame(raised, invocations) == [raised |-> raised, invocations |-> invocations]

\* extract_frame_as_png_bytes falling back to the last frame whenever the
\* first run gave no bytes, failed or not
extract_frame_as_png_bytes_FallsBackOnFailure(frame_number_1based, has_ffmpeg, primary, last, decodes) ==
    IF frame_number_1based < 1 THEN Frame("frame_number", <<>>)
    ELSE IF ~has_ffmpeg THEN Frame("ffmpeg", <<>>)
    ELSE IF run_extract(primary).bytes
    THEN Frame(IF decodes THEN "" ELSE "decode", <<"select">>)
    ELSE With(run_extract(last), LAMBDA second :
             IF second.raised # "" THEN Frame(second.raised, <<"select", "sseof">>)
             ELSE IF ~second.bytes THEN Frame("no_frame", <<"select", "sseof">>)
             ELSE Frame(IF decodes THEN "" ELSE "decode", <<"select", "sseof">>))

\* extract_frame_as_png_bytes(video_path, frame_number_1based) when ffmpeg is
\* found or not, its run with the select filter ends as `primary`, its run
\* with -sseof as `last`, and the bytes decode as an image or not
extract_frame_as_png_bytes(frame_number_1based, has_ffmpeg, primary, last, decodes) ==
    IF frame_number_1based < 1 THEN Frame("frame_number", <<>>)
    ELSE IF ~has_ffmpeg THEN Frame("ffmpeg", <<>>)
    ELSE With(run_extract(primary), LAMBDA first :
             IF first.raised # "" THEN Frame(first.raised, <<"select">>)
             ELSE IF first.bytes THEN Frame(IF decodes THEN "" ELSE "decode", <<"select">>)
             ELSE With(run_extract(last), LAMBDA second :
                      IF second.raised # "" THEN Frame(second.raised, <<"select", "sseof">>)
                      ELSE IF ~second.bytes THEN Frame("no_frame", <<"select", "sseof">>)
                      ELSE Frame(IF decodes THEN "" ELSE "decode", <<"select", "sseof">>)))

\* the frame numbers a call is made with
FrameNumbers == {-1, 0, 1, 2}

\* one call of extract_frame_as_png_bytes
CallExtractFrame ==
    /\ call = NoCall
    /\ \E frame_number_1based \in FrameNumbers, has_ffmpeg \in BOOLEAN,
          primary \in RunOutcomes, last \in RunOutcomes, decodes \in BOOLEAN :
          call' = [fn |-> "extract_frame_as_png_bytes",
                   frame_number_1based |-> frame_number_1based, has_ffmpeg |-> has_ffmpeg,
                   primary |-> primary, last |-> last, decodes |-> decodes,
                   out |-> extract_frame_as_png_bytes(frame_number_1based, has_ffmpeg,
                                                      primary, last, decodes)]
    /\ UNCHANGED <<fs, rows, queue, stop_event, worker, ui, progress, emitted, handled, runs,
                   budget, faults, title_threads, ocr>>

-----------------------------------------------------------------------------
(* Calls of the functions of rename.py *)

\* the file names a directory holds when a target is resolved
PickFiles ==
    {<<"a", ".", "m", "p", "4">>, <<"a", "_", "2", ".", "m", "p", "4">>,
     <<"a", "_", "3", ".", "m", "p", "4">>, <<"a", "_", "2", "_", "2", ".", "m", "p", "4">>,
     <<"b">>, <<"b", "_", "2">>}

\* the targets resolved
PickTargets == {<<"a", ".", "m", "p", "4">>, <<"a", "_", "2", ".", "m", "p", "4">>, <<"b">>}

\* one call of pick_non_conflicting_path, the first call of the behaviour
CallPick ==
    /\ call = NoCall
    /\ \E target_path \in PickTargets, ignore_path \in PickTargets \cup {NoPath},
          files \in SUBSET PickFiles :
          call' = [fn |-> "pick_non_conflicting_path", target_path |-> target_path,
                   ignore_path |-> ignore_path, files |-> files, again |-> FALSE,
                   result |-> pick_non_conflicting_path(target_path, ignore_path, files)]
    /\ UNCHANGED <<fs, rows, queue, stop_event, worker, ui, progress, emitted, handled, runs,
                   budget, faults, title_threads, ocr>>

\* the path just returned is resolved once more against the same directory
CallPickAgain ==
    /\ call.fn = "pick_non_conflicting_path" /\ ~call.again
    /\ call' = [call EXCEPT !.target_path = call.result, !.again = TRUE,
                            !.result = pick_non_conflicting_path(call.result, call.ignore_path,
                                                                 call.files)]
    /\ UNCHANGED <<fs, rows, queue, stop_event, worker, ui, progress, emitted, handled, runs,
                   budget, faults, title_threads, ocr>>

\* the pieces a reply content is put together from: blank lines, opening
\* quotes, a label, its separator, the title, closing quotes, further lines
ReplyParts ==
    [lead : {<<>>, <<"\n">>, <<" ", "\n", "\t", "\n">>},
     open : {<<>>, <<"\"">>, <<"LDQ">>, <<" ", "'">>},
     label : {<<>>, <<"biao", "ti">>, <<"T", "i", "t", "l", "e">>, <<"t", "i", "t", "l", "e">>},
     sep : {<<>>, <<":">>, <<"FWCOLON">>, <<" ">>, <<":", " ">>},
     body : {<<"jin", "tian", "tian", "qi", "zhen", "hao">>, <<"a", " ", "b">>, <<"\"", "a">>},
     close : {<<>>, <<"\"">>, <<"RDQ", " ">>},
     rest : {<<>>, <<"\n", "b">>}]

\* one call of extract_title_sentence whose request succeeds at once, the
\* first call of the behaviour
CallExtractTitleFrom ==
    /\ call = NoCall
    /\ \E p \in ReplyParts :
       \E content \in {p.lead \o p.open \o p.label \o p.sep \o p.body \o p.close \o p.rest} :
          call' = [fn |-> "extract_title_sentence", retries |-> 1, parts |-> p,
                   content |-> content,
                   out |-> extract_title_sentence(<<"k">>, <<"t", "x", "t">>, <<"s">>, <<"u">>,
                                                  RetryLoop(1, <<"ok">>, 0), TRUE, content)]
    /\ UNCHANGED <<fs, rows, queue, stop_event, worker, ui, progress, emitted, handled, runs,
                   budget, faults, title_threads, ocr>>

\* the files of a scanned directory
ScanFiles ==
    {<<"v", "1", ".", "m", "p", "4">>, <<"v", "2", ".", "m", "p", "4">>,
     <<"v", "1", "0", ".", "m", "p", "4">>, <<"V", "3", ".", "m", "o", "v">>,
     <<"b", ".", "a", "v", "i">>, <<"n", ".", "t", "x", "t">>,
     <<"v", "1", ".", "t", "x", "t">>}

\* one call of _scan_videos, the first call of the behaviour
CallScan ==
    /\ call = NoCall
    /\ \E files \in SUBSET ScanFiles :
          \E result \in _scan_videos(files) :
             call' = [fn |-> "_scan_videos", files |-> files, result |-> result]
    /\ UNCHANGED <<fs, rows, queue, stop_event, worker, ui, progress, emitted, handled, runs,
                   budget, faults, title_threads, ocr>>

\* longest title drawn character by character
MaxTitleLen == 3

\* the characters of those titles
TitleChars == {"a", "7", ":", " ", ".", "\t", "SOH", "ZWSP"}

Repeat(c, n) == [k \in 1..n |-> c]

\* titles around the length limit
LongTitles ==
    {Repeat("a", max_len), Repeat("a", max_len + 1), Repeat(":", max_len + 1),
     Repeat("a", max_len - 1) \o <<" ", "b">>}

\* the titles a target is built from
TitleInputs ==
    UNION {[1..n -> TitleChars] : n \in 0..MaxTitleLen}
    \cup LongTitles
    \cup {<<"H", "e", "l", "l", "o", ":", " ", "W", "o", "r", "l", "d">>}

\* one call of build_target_path, the first call of the behaviour
CallBuildTarget ==
    /\ call = NoCall
    /\ \E src_path \in {<<"b", ".", "m", "p", "4">>, <<"b">>}, index \in {7, 1234},
          index_padding \in {0, 3}, title \in TitleInputs :
          call' = [fn |-> "build_target_path", src_path |-> src_path, index |-> index,
                   index_padding |-> index_padding, title |-> title,
                   safe_title |-> sanitize_filename_component(title),
                   result |-> build_target_path(src_path, index, index_padding, title)]
    /\ UNCHANGED <<fs, rows, queue, stop_event, worker, ui, progress, emitted, handled, runs,
                   budget, faults, title_threads, ocr>>

-----------------------------------------------------------------------------
(* Specifications *)

\* the user scans the directory once, before anything else
ScanOnce == rows = <<>> /\ _scan

\* the user sets the dry-run checkbox before the first run
ChooseDryRun == runs = <<>> /\ SetDryRun

Next ==
    \/ ScanOnce
    \/ ChooseDryRun
    \/ _start
    \/ _rename_all
    \/ _stop
    \/ _drain_queue
    \/ RunWorkerHead
    \/ RunWorkerExtract
    \/ RunWorkerRecognize
    \/ RunWorkerTitle
    \/ RunWorkerDone
    \/ RunRenameAllItem
    \/ RunRenameAllDone
    \/ WorkerExit

Spec == Init /\ [][Next]_vars

\* the steps of the batch worker thread
WorkerStep ==
    \/ RunWorkerHead
    \/ RunWorkerExtract
    \/ RunWorkerRecognize
    \/ RunWorkerTitle
    \/ RunWorkerDone
    \/ RunRenameAllItem
    \/ RunRenameAllDone
    \/ WorkerExit

\* the worker thread is scheduled and every stage call returns; the Tk timer
\* keeps calling _drain_queue
FairSpec == Spec /\ WF_vars(WorkerStep) /\ WF_vars(_drain_queue)

\* a behaviour with one run more, in which the dry-run checkbox may change
\* at any time and the environment causes no failure
NextDryLive == Next \/ SetDryRun

SpecDryLive == Constructed(MaxRuns + 1, MaxFaults) /\ [][NextDryLive]_vars

\* one run without failures, the user editing the settings at any time
NextSettings ==
    \/ Next
    \/ SetDryRun
    \/ SetStartIndex
    \/ SetPadding

SpecSettings == Constructed(MaxRuns, MaxFaults) /\ [][NextSettings]_vars

\* one batch run or one single-item request under edited settings
NextIndex ==
    \/ NextSettings
    \/ _generate_title_for_selected
    \/ TitleThreadCall
    \/ TitleThreadStatus
    \/ _rename_selected

SpecIndex == Constructed(MaxRuns, 0) /\ [][NextIndex]_vars

\* a behaviour with one thread more, in which the user also uses the title
\* button and the environment causes no failure
NextUI ==
    \/ Next
    \/ _generate_title_for_selected
    \/ TitleThreadCall
    \/ TitleThreadStatus

SpecUI == Constructed(MaxRuns + 1, MaxFaults) /\ [][NextUI]_vars

\* the user rescans while a batch worker is iterating over the scanned list
RescanWhileRunning == worker.alive /\ ~worker.detached /\ _scan

\* a behaviour with one click more, in which the user also edits rows,
\* renames single rows and rescans during a run, and the environment causes
\* no failure
NextEdit ==
    \/ Next
    \/ RescanWhileRunning
    \/ _save_ocr_edit
    \/ _save_title_edit
    \/ _rename_selected

SpecEdit == Constructed(MaxRuns + 1, MaxFaults) /\ [][NextEdit]_vars

\* one OCR client and the calls made on it as time passes
NextOcr ==
    \/ BaiduOcrClient
    \/ Tick
    \/ CallRecognize

SpecOcr == Init /\ [][NextOcr]_vars

\* calls of the title extraction on replies of every shape
NextTitle == CallExtractTitleFrom

SpecTitle == Init /\ [][NextTitle]_vars

\* calls of the scanner
NextScan == CallScan

SpecScan == Init /\ [][NextScan]_vars

\* calls of the target builder
NextBuild == CallBuildTarget

SpecBuild == Init /\ [][NextBuild]_vars

\* calls of the conflict resolver
NextPick ==
    \/ CallPick
    \/ CallPickAgain

SpecPick == Init /\ [][NextPick]_vars

\* the two services' clients and the calls made on them
NextClients ==
    \/ BaiduOcrClient
    \/ CallRecognize
    \/ CallExtractTitle

SpecClients == Init /\ [][NextClients]_vars

\* extract_frame_as_png_bytes on frame numbers and ffmpeg outcomes
SpecFrame == Init /\ [][CallExtractFrame]_vars

\* extract_title_sentence on its text arguments
SpecExtract == Init /\ [][CallExtractTitleWith]_vars

-----------------------------------------------------------------------------
(* What the runs emitted *)

\* positions in `emitted` of the events of run r
RunIdx(r) == {p \in 1..Len(emitted) : emitted[p].run = r}

\* positions of the events of item i (0-based) of run r
ItemIdx(r, i) == {p \in RunIdx(r) : emitted[p].kind # "done" /\ emitted[p].item = i}

ProgressIdx(r) == {p \in RunIdx(r) : emitted[p].kind = "progress"}

DoneIdx(r) == {p \in RunIdx(r) : emitted[p].kind = "done"}

ErrorIdx(r, i) == {p \in ItemIdx(r, i) : emitted[p].kind = "error"}

\* an event that reports an item's terminal outcome
IsTerminal(e) ==
    \/ e.kind = "error"
    \/ e.kind = "status" /\ e.status \in {"done", "preview"}

TerminalIdx(r, i) == {p \in ItemIdx(r, i) : IsTerminal(emitted[p])}

\* the current run's loop has ended
RunOver == worker.kind # "none" /\ worker.pc \in {"exit", "idle"}

\* the worker is between two items and stop has been requested
StoppedAtBoundary == worker.alive /\ worker.pc = "head" /\ stop_event

\* run r has processed exactly the items 0..k-1
ProcessedExactly(r, k) ==
    /\ Cardinality(ProgressIdx(r)) = k
    /\ \A p \in RunIdx(r) : emitted[p].kind # "done" => emitted[p].item < k
    /\ \A i \in 0..(k - 1) : TerminalIdx(r, i) # {}

-----------------------------------------------------------------------------
(* C1 *)

C1_Inv ==
    (StoppedAtBoundary \/ RunOver) =>
        /\ ProcessedExactly(worker.run, worker.offset)
        /\ RunOver => Cardinality(DoneIdx(worker.run)) = 1

C1_Step ==
    StoppedAtBoundary => worker'.offset = worker.offset /\ worker'.pc \in {"head", "exit"}

\* C1: once stop is requested with item k of n completed and item k+1 not yet
\* started, the run (processing or rename-all) starts no further item: it has
\* put exactly k progress events and no event of an item beyond k, each of the
\* k items has a terminal event (done/preview status or error), and when the
\* loop has ended the run has put its done event.
C1_Cancellation == []C1_Inv /\ [][C1_Step]_vars

\* a processing run of two items that stop ended after its first item
C1_Witness ==
    /\ RunOver /\ stop_event
    /\ worker.kind = "_run_worker" /\ worker.n = 2 /\ worker.offset = 1

-----------------------------------------------------------------------------
(* C2 *)

\* the events the current step puts on the queue
NewEvents == SubSeq(emitted', Len(emitted) + 1, Len(emitted'))

PutsError == \E p \in 1..Len(NewEvents) : NewEvents[p].kind = "error"

C2_Inv ==
    /\ \A r \in 1..Len(runs) : \A i \in 0..(Len(runs[r].paths) - 1) :
          /\ Cardinality(ErrorIdx(r, i)) <= 1
          /\ (\E p \in ItemIdx(r, i) : emitted[p].kind = "progress") =>
                (ErrorIdx(r, i) # {}) #
                (\E p \in ItemIdx(r, i) : emitted[p].kind = "status"
                                          /\ emitted[p].status \in {"done", "preview"})
    /\ (worker.alive /\ worker.pc = "head" /\ worker.offset < worker.n /\ ~stop_event) =>
          ENABLED (RunWorkerHead \/ RunRenameAllItem)

C2_Step ==
    PutsError =>
        /\ Cardinality({p \in 1..Len(NewEvents) : NewEvents[p].kind = "error"}) = 1
        /\ \A p \in 1..Len(NewEvents) :
              NewEvents[p].kind = "error" =>
                  NewEvents[p].run = worker.run /\ NewEvents[p].item = worker.offset
        /\ worker'.alive /\ worker'.pc = "head" /\ worker'.offset = worker.offset + 1

\* C2: a stage of item i raising (a declared error or any other exception)
\* puts exactly one error event, for item i, and leaves the worker alive at
\* the loop head of item i+1, which it starts unless stop is set; an item that
\* has ended has either one error event or a done/preview status, never both.
C2_BatchContinuation == []C2_Inv /\ [][C2_Step]_vars

\* item 0 of a run failed and the run has put an event of item 1
C2_Witness == ErrorIdx(1, 0) # {} /\ ItemIdx(1, 1) # {}

-----------------------------------------------------------------------------
(* C3 *)

C3_Safety ==
    \A r \in 1..Len(runs) :
        /\ Cardinality(DoneIdx(r)) <= 1
        /\ \A d \in DoneIdx(r) : \A p \in RunIdx(r) : p <= d

C3_Live == \A r \in 1..MaxRuns : (Len(runs) >= r) ~> (DoneIdx(r) # {})

\* C3: every started run (processing or rename-all; completed, cancelled or
\* with failing items) eventually puts a done event, puts exactly one, and puts
\* no event after it.
C3_DoneEvent == []C3_Safety /\ C3_Live

\* a cancelled run with a failed item has put its done event
C3_Witness == DoneIdx(1) # {} /\ ErrorIdx(1, 0) # {} /\ stop_event /\ worker.offset < worker.n

-----------------------------------------------------------------------------
(* C4 *)

\* C4: within a run the events of item i all precede the events of item i+1,
\* and item i+1 has no event before item i has a terminal one.
C4_Sequential ==
    \A r \in 1..Len(runs) : \A q \in RunIdx(r) :
        emitted[q].kind # "done" =>
            /\ \A p \in RunIdx(r) :
                  (p < q /\ emitted[p].kind # "done") => emitted[p].item <= emitted[q].item
            /\ emitted[q].item > 0 =>
                  \E p \in TerminalIdx(r, emitted[q].item - 1) : p < q

\* a processing run has started its second item
C4_Witness ==
    /\ Len(runs) >= 1 /\ runs[1].kind = "_run_worker"
    /\ \E p \in ItemIdx(1, 1) : emitted[p].kind = "status" /\ emitted[p].status = "OCR..."

-----------------------------------------------------------------------------
(* C5 *)

\* the status strings that report the stages FrameExtracting, Ocr,
\* TitleExtracting, Renaming and Done, in stage order
StageOrder == <<"frame...", "OCR...", "DeepSeek...", "renaming...", "done">>

Done == Len(StageOrder)

Failed == Done + 1

\* the stage an event reports (Queued is 0), 0 for an event that reports none
StageOf(e) ==
    IF e.kind = "error" THEN Failed
    ELSE IF e.kind = "status" /\ \E k \in 1..Done : StageOrder[k] = e.status
         THEN CHOOSE k \in 1..Done : StageOrder[k] = e.status
         ELSE 0

StageIdx(r, i) == {p \in ItemIdx(r, i) : StageOf(emitted[p]) # 0}

\* the stage item i of run r was in before the event at position q (Queued
\* is 0)
StageBefore(r, i, q) ==
    LET earlier == {p \in StageIdx(r, i) : p < q}
    IN  IF earlier = {} THEN 0
        ELSE StageOf(emitted[CHOOSE p \in earlier : \A o \in earlier : o <= p])

\* C5: in a processing run every stage change of an item goes from a
\* non-terminal stage either to the next stage of Queued, FrameExtracting,
\* Ocr, TitleExtracting, Renaming, Done or to Failed.
C5_StageMachine ==
    \A r \in 1..Len(runs) :
        runs[r].kind = "_run_worker" =>
            \A i \in 0..(Len(runs[r].paths) - 1) : \A q \in StageIdx(r, i) :
                /\ StageBefore(r, i, q) < Done
                /\ \/ StageOf(emitted[q]) = Failed
                   \/ StageOf(emitted[q]) = StageBefore(r, i, q) + 1

-----------------------------------------------------------------------------
(* C6 *)

\* C6: a run whose snapshot has dry_run set (processing or rename-all) puts
\* no renamed event, and while it is the current run the directory holds the
\* files it held when the run started.
C6_DryRunNoRename ==
    /\ \A p \in 1..Len(emitted) :
          emitted[p].kind = "renamed" => ~runs[emitted[p].run].cfg.dry_run
    /\ (worker.kind # "none" /\ worker.cfg.dry_run) => fs = runs[worker.run].fs

\* a dry processing run has ended after proposing a name for both items
C6_Witness ==
    /\ RunOver /\ worker.cfg.dry_run /\ worker.kind = "_run_worker"
    /\ \A i \in {0, 1} : \E p \in ItemIdx(worker.run, i) : emitted[p].kind = "title"

-----------------------------------------------------------------------------
(* C7 *)

\* C7: a successfully processed item of a dry processing run is reported
\* "preview", and "done" is reported only for an item whose file the run
\* renamed.
C7_DryRunStatus ==
    \A r \in 1..Len(runs) : \A i \in 0..(Len(runs[r].paths) - 1) :
        \A p \in ItemIdx(r, i) :
            (emitted[p].kind = "status" /\ emitted[p].status = "done") =>
                /\ ~runs[r].cfg.dry_run
                /\ \E q \in ItemIdx(r, i) : q < p /\ emitted[q].kind = "renamed"

-----------------------------------------------------------------------------
(* C9 *)

C9_Inv == handled \o queue = emitted

C9_Step ==
    handled' # handled =>
        /\ queue # <<>> /\ queue' = <<>>
        /\ handled' = handled \o queue
        /\ rows' = HandleAllRows(rows, queue)
        /\ progress' = HandleAllProgress(progress, queue)

C9_Live == (queue # <<>>) ~> (queue = <<>>)

\* C9: the events handled so far followed by the events still queued are the
\* events put, in the order they were put; a drain handles the queued events
\* in queue order, once each, and handles nothing when the queue is empty;
\* every queued event is eventually handled.
C9_Channel == []C9_Inv /\ [][C9_Step]_vars /\ C9_Live

\* events were handled in an earlier drain and others are waiting
C9_Witness == Len(handled) >= 2 /\ Len(queue) >= 2

-----------------------------------------------------------------------------
(* C8 *)

TitleIdx(r, i) == {p \in ItemIdx(r, i) : emitted[p].kind = "title"}

\* runs d and l are of the same kind, over the same list, titles, start
\* index, padding and directory, d dry and l live
SameInputs(d, l) ==
    /\ runs[d].cfg.dry_run /\ ~runs[l].cfg.dry_run
    /\ runs[d].kind = runs[l].kind
    /\ runs[d].paths = runs[l].paths
    /\ runs[d].titles = runs[l].titles
    /\ runs[d].fs = runs[l].fs
    /\ runs[d].cfg.start_index = runs[l].cfg.start_index
    /\ runs[d].cfg.index_padding = runs[l].cfg.index_padding

\* C8: a dry run and a live run from the same inputs propose, for every item
\* they give the same title, the same new name.
C8_DryLiveEquivalence ==
    \A d \in 1..Len(runs), l \in 1..Len(runs) :
        SameInputs(d, l) =>
            \A i \in 0..(Len(runs[d].paths) - 1) :
                \A p \in TitleIdx(d, i), q \in TitleIdx(l, i) :
                    emitted[p].title = emitted[q].title =>
                        emitted[p].new_name = emitted[q].new_name

-----------------------------------------------------------------------------
(* C10 *)

\* the title threads that have not ended
AliveTitleThreads == {k \in 1..Len(title_threads) : title_threads[k].pc # "ended"}

\* C10: a title thread is never alive together with a batch worker or with
\* another title thread.
C10_SingleProducer ==
    /\ worker.alive => AliveTitleThreads = {}
    /\ Cardinality(AliveTitleThreads) <= 1

-----------------------------------------------------------------------------
(* C11 *)

\* the step is not a drain of the queue, the only handler that applies the
\* worker's own events to the rows
NotADrain == handled' = handled

\* C11: while a batch worker is alive no user operation (saving an OCR or
\* title edit, single-item title generation or rename, rescan) changes the
\* item list or any item's fields.
C11_EditsRejected == [][(worker.alive /\ NotADrain) => rows' = rows]_vars

-----------------------------------------------------------------------------
(* C12 *)

\* the step is a call of recognize
IsRecognize ==
    /\ call'.fn = "recognize"
    /\ ocr'.now = ocr.now /\ ocr'.retries = ocr.retries
    /\ call' # call \/ ocr' # ocr

\* the token requests and the recognition requests of the call just made
TokenRequests(c) == {k \in 1..Len(c.out.requests) : c.out.requests[k] = "token"}

OcrRequests(c) == {k \in 1..Len(c.out.requests) : c.out.requests[k] = "ocr"}

\* a recognize call made while the cached token is fresh makes no token
\* request and leaves the cache alone
C12_Reuse ==
    (IsRecognize /\ TokenFresh(ocr)) =>
        /\ TokenRequests(call') = {}
        /\ ocr'.token = ocr.token /\ ocr'.expires_at_epoch = ocr.expires_at_epoch

\* a recognize call makes its token requests before its recognition requests
C12_Order ==
    IsRecognize =>
        \A t \in TokenRequests(call'), o \in OcrRequests(call') : t < o

\* the call of this step was made with no fresh token and reached its
\* recognition request
Reissued == IsRecognize /\ ~TokenFresh(ocr) /\ OcrRequests(call') # {}

\* C12 (as stated): a recognize call on a fresh token makes no token request;
\* a call with no fresh token makes exactly one token request, before its
\* recognition request.
C12_TokenReuse ==
    [][/\ C12_Reuse
       /\ C12_Order
       /\ Reissued => Cardinality(TokenRequests(call')) = 1]_vars

\* C12 (amended): a recognize call on a fresh token makes no token request;
\* a call with no fresh token that reaches its recognition request has made
\* between one and `retries` token requests, all before it, and exactly one
\* when no token attempt failed.
C12_TokenReuseRetried ==
    [][/\ C12_Reuse
       /\ C12_Order
       /\ Reissued =>
              /\ Cardinality(TokenRequests(call')) \in 1..ocr.retries
              /\ ocr'.token # ""
              /\ (\A k \in 1..Len(call'.out.token_trace) : call'.out.token_trace[k] = "ok")
                     => Cardinality(TokenRequests(call')) = 1]_vars

\* a call has just reused a fresh token for its recognition request
C12_Witness ==
    /\ TokenFresh(ocr) /\ ocr.now > 0
    /\ call.fn = "recognize" /\ call.out.requests = <<"ocr">> /\ call.out.raised_in = ""

-----------------------------------------------------------------------------
(* C13 *)

Transient(n) == [k \in 1..n |-> "RequestException"]

\* a request loop allowed `retries` attempts, whose attempts ended as `trace`
\* and which raised or not, went as claimed: transient failures alone end it
\* only at the last attempt allowed, raising with that attempt's exception as
\* cause; retries - 1 transient failures and a success end it without raising
RetriedAsClaimed(retries, trace, raised, cause) ==
    /\ (\E n \in 0..MaxRetries : trace = Transient(n)) =>
           /\ Len(trace) \in {0, retries}
           /\ Len(trace) = retries => raised /\ cause = retries
    /\ trace = Transient(retries - 1) \o <<"ok">> => ~raised

\* C13: in each client (token issuance, OCR recognition, title extraction) a
\* call whose attempts fail transiently retries-1 times and then succeed does
\* not raise, and a call whose attempts fail transiently `retries` times
\* raises the domain error with the last attempt's exception as its cause.
C13_RetryOutcome ==
    /\ call.fn = "recognize" =>
           /\ RetriedAsClaimed(call.retries, call.out.token_trace,
                               call.out.raised_in = "token", call.out.cause)
           /\ RetriedAsClaimed(call.retries, call.out.ocr_trace,
                               call.out.raised_in = "ocr", call.out.cause)
           /\ (/\ call.out.ocr_trace = Transient(call.retries - 1) \o <<"ok">>
               /\ call.out.raised_in # "error_code") => call.out.raised_in = ""
    /\ call.fn = "extract_title_sentence" =>
           /\ RetriedAsClaimed(call.retries, call.out.loop.trace,
                               call.out.raised_in = "request", call.out.cause)
           /\ (/\ call.out.loop.trace = Transient(call.retries - 1) \o <<"ok">>
               /\ call.out.raised_in # "content") => call.out.raised_in = ""

\* a recognize call whose token loop recovered at its last attempt and whose
\* OCR loop used up its attempts
C13_Witness ==
    /\ call.fn = "recognize" /\ call.retries >= 2
    /\ call.out.token_trace = Transient(call.retries - 1) \o <<"ok">>
    /\ call.out.ocr_trace = Transient(call.retries)
    /\ call.out.raised_in = "ocr" /\ call.out.cause = call.retries

-----------------------------------------------------------------------------
(* C14 *)

\* largest counter a name of PickFiles needs
MaxCounter == 4

\* the call resolved the target against a directory holding it
Conflicting == call.fn = "pick_non_conflicting_path" /\ call.target_path \in call.files

\* the returned path is the target when the target does not exist, and
\* otherwise <stem>_c<ext> for the smallest c >= 2 whose name does not exist
ResolvedAsClaimed ==
    /\ ~Conflicting => call.result = call.target_path
    /\ Conflicting =>
           \E c \in 2..MaxCounter :
              /\ call.result = Stem(call.target_path) \o <<"_">> \o Str(c)
                                   \o Suffix(call.target_path)
              /\ \A b \in 2..(c - 1) :
                    Stem(call.target_path) \o <<"_">> \o Str(b) \o Suffix(call.target_path)
                        \in call.files
    /\ call.result \notin call.files
    /\ call.again => call.result = call.target_path

-----------------------------------------------------------------------------
(* C15 *)

\* the filesystem-reserved characters
ReservedChars == {"<", ">", ":", "\"", "/", "\\", "|", "?", "*"}

\* the control characters (U+0000..U+001F) of the model's alphabet
ControlChars == {"SOH", "\t", "\n"}

\* the sanitizer of the claim: reserved and control characters become a
\* space, whitespace runs collapse, spaces and dots are stripped at both ends
SanitizedAsClaimed(title) ==
    Strip(CollapseWhitespace(ReplaceChars(title, ReservedChars \cup ControlChars, " ")),
          {" ", "."})

\* C15: build_target_path returns <index zero-padded>-<sanitized title><ext>,
\* the sanitizer replacing only reserved and control characters by a space,
\* collapsing whitespace runs and stripping spaces and dots, other characters
\* unchanged; b.mp4, index 7, padding 3, "Hello: World" gives
\* 007-Hello World.mp4.
C15_RenameDeterminism ==
    call.fn = "build_target_path" =>
        /\ (SanitizedAsClaimed(call.title) # <<>> /\ Len(SanitizedAsClaimed(call.title)) <= max_len)
               => call.result = ZFill(Str(call.index), call.index_padding) \o <<"-">>
                                    \o SanitizedAsClaimed(call.title) \o Suffix(call.src_path)
        /\ (/\ call.src_path = <<"b", ".", "m", "p", "4">> /\ call.index = 7
            /\ call.index_padding = 3
            /\ call.title = <<"H", "e", "l", "l", "o", ":", " ", "W", "o", "r", "l", "d">>)
               => call.result = <<"0", "0", "7", "-", "H", "e", "l", "l", "o", " ",
                                  "W", "o", "r", "l", "d", ".", "m", "p", "4">>

-----------------------------------------------------------------------------
(* C16 *)

\* C16: for every title the sanitized part of the target name is non-empty,
\* at most 80 characters long, and holds no reserved character and no control
\* character.
C16_TargetInvariant ==
    call.fn = "build_target_path" =>
        /\ call.safe_title # <<>>
        /\ Len(call.safe_title) <= 80
        /\ \A k \in 1..Len(call.safe_title) :
              call.safe_title[k] \notin ReservedChars \cup ControlChars

-----------------------------------------------------------------------------
(* C17 *)

\* the name is one letter, a digit run and an extension
Numbered(name) == Len(Stem(name)) >= 2 /\ IsDigit(Tail(Stem(name)))

\* C17: the scanner orders names with digit runs compared numerically and
\* the rest case-insensitively: of two names that differ in one digit run
\* only, the one with the smaller number comes first, so v1, v2, v10.
C17_NaturalOrdering ==
    call.fn = "_scan_videos" =>
        \A i, j \in 1..Len(call.result) :
            (/\ i < j
             /\ Numbered(call.result[i]) /\ Numbered(call.result[j])
             /\ LowerChar(Head(call.result[i])) = LowerChar(Head(call.result[j]))
             /\ Lower(Suffix(call.result[i])) = Lower(Suffix(call.result[j])))
                => ParseInt(Tail(Stem(call.result[i]))) <= ParseInt(Tail(Stem(call.result[j])))

-----------------------------------------------------------------------------
(* C18 *)

\* the title the claim gives for a reply put together from the pieces p: the
\* first non-empty line is open, label, sep, body, close; its quotes and
\* whitespace go at both ends, then the label with its separator, if both are
\* there
TitleAsClaimed(p) ==
    IF p.label # <<>> /\ p.sep # <<>> THEN p.body
    ELSE IF p.label = <<>> THEN LStrip(p.sep \o p.body, QuoteChars)
    ELSE p.label \o p.body

\* C18: the extracted title is the first non-empty line of the reply content
\* with leading and trailing quote characters and whitespace stripped and
\* then a leading label (case-insensitive, followed by a colon or whitespace)
\* stripped.
C18_TitlePostProcessing ==
    (call.fn = "extract_title_sentence" /\ "parts" \in DOMAIN call) =>
        /\ call.out.raised_in = ""
        /\ call.out.title = TitleAsClaimed(call.parts)

\* the reply is the label, a full-width colon and the title, in double quotes
C18_Witness ==
    /\ call.fn = "extract_title_sentence" /\ "content" \in DOMAIN call
    /\ call.content = <<"\"", "biao", "ti", "FWCOLON",
                        "jin", "tian", "tian", "qi", "zhen", "hao", "\"">>
    /\ call.out.title = <<"jin", "tian", "tian", "qi", "zhen", "hao">>

-----------------------------------------------------------------------------
(* C19 *)

\* the stage in which an exception is raised: VideoFrameError by the frame
\* extraction, BaiduOcrError by the OCR client, DeepSeekError by the title
\* extraction, OSError by the rename and PermissionError by the existence
\* test of the conflict resolution, which the claim counts as renaming
StageRaising(exc) ==
    CASE exc = "VideoFrameError" -> "frame"
      [] exc = "BaiduOcrError" -> "OCR"
      [] exc = "DeepSeekError" -> "DeepSeek"
      [] OTHER -> "rename"

\* C19: every item failure is reported as one event carrying the item's path
\* and a message prefixed with the stage in which the exception occurred
\* (building the target name and resolving conflicts being renaming), then
\* the underlying error message.
C19_FailureStage ==
    \A k \in 1..Len(emitted) :
        (emitted[k].kind = "error" /\ emitted[k].run > 0) =>
            /\ emitted[k].path = runs[emitted[k].run].paths[emitted[k].item + 1]
            /\ emitted[k].error[2] = "fail" =>
                   emitted[k].error[1] = StageRaising(emitted[k].error[3])

-----------------------------------------------------------------------------
(* C20 *)

\* the configuration run r was started with
StartedWith(r) == runs[r].cfg

\* C20: the worker uses the configuration copy taken at Start for the whole
\* run: every item's target name carries the index and padding of the copy,
\* files are renamed only if the copy's dry-run flag is off, and the copy the
\* thread holds never changes, whatever the user does to the settings.
C20_ConfigSnapshot ==
    /\ worker.alive => worker.cfg = StartedWith(worker.run)
    /\ \A k \in 1..Len(emitted) :
          emitted[k].run > 0 =>
              /\ emitted[k].kind = "title" =>
                     IsPrefix(ZFill(Str(OrElse(StartedWith(emitted[k].run).start_index, 1)
                                        + emitted[k].item),
                                    Max(1, StartedWith(emitted[k].run).index_padding))
                              \o <<"-">>,
                              emitted[k].new_name)
              /\ emitted[k].kind = "renamed" => ~StartedWith(emitted[k].run).dry_run

\* every setting was changed after the first item of a run, whose second
\* item is at its last stage
C20_Witness ==
    /\ worker.alive /\ worker.kind = "_run_worker" /\ worker.offset = 1 /\ worker.pc = "title"
    /\ ui.dry_run # worker.cfg.dry_run
    /\ ui.start_index # worker.cfg.start_index
    /\ ui.index_padding # worker.cfg.index_padding
    /\ \E k \in 1..Len(emitted) :
          emitted[k].kind = "progress" /\ emitted[k].run = worker.run

-----------------------------------------------------------------------------
(* C21 *)

\* the processing thread is inside an item
InFlight == worker.alive /\ worker.kind = "_run_worker" /\ worker.pc \in {"extract", "recognize", "title"}

\* a step of the thread inside an item takes the item to its next stage or
\* ends it with a terminal event, stop requested or not
C21_InFlight ==
    (InFlight /\ worker' # worker) =>
        \/ worker'.pc \in {"recognize", "title"} /\ worker'.offset = worker.offset
        \/ /\ worker'.pc = "head" /\ worker'.offset = worker.offset + 1
           /\ \E p \in 1..Len(emitted') :
                 /\ emitted'[p].run = worker.run /\ emitted'[p].item = worker.offset
                 /\ IsTerminal(emitted'[p])

\* C21: requesting stop again changes nothing; stop never interrupts the item
\* in flight, which runs its remaining stages to a terminal outcome; and the
\* thread a Start or Rename-all starts finds the flag cleared, whatever was
\* requested before.
C21_StopCoarse ==
    [][/\ (stop_event /\ _stop) => UNCHANGED vars
       /\ C21_InFlight
       /\ (~worker.alive /\ worker'.alive) => ~stop_event']_vars

\* stop was requested while the second item of a run was in flight, and the
\* item went on to its last stage
C21_Witness ==
    /\ InFlight /\ stop_event
    /\ worker.offset = 1 /\ worker.pc = "title"

-----------------------------------------------------------------------------
(* C22 *)

\* a request loop called with `retries_arg` whose attempts ended as `trace`
\* and which slept `waits` between them went as the claim says
ScheduleAsClaimed(retries_arg, trace, waits) ==
    /\ Len(trace) <= Max(1, retries_arg)
    /\ Len(waits) = Max(0, Len(trace) - 1)
    /\ \A j \in 2..Len(trace) : waits[j - 1] = 2 ^ (j - 2)
    /\ \A j \in 1..Len(trace) - 1 : trace[j] # "ok"

\* C22: one call of token issuance, OCR recognition or title extraction makes
\* at most max(1, retries) HTTP attempts; it waits 2^(j-2) seconds before
\* attempt j >= 2 and not after its last attempt; and a successful attempt is
\* the last one.
C22_BackoffSchedule ==
    /\ call.fn = "recognize" =>
           /\ ScheduleAsClaimed(call.retries_arg, call.out.token_trace, call.out.token_waits)
           /\ ScheduleAsClaimed(call.retries_arg, call.out.ocr_trace, call.out.ocr_waits)
           /\ Len(call.out.requests) = Len(call.out.token_trace) + Len(call.out.ocr_trace)
    /\ call.fn = "extract_title_sentence" =>
           /\ ScheduleAsClaimed(call.retries_arg, call.out.loop.trace, call.out.loop.waits)
           /\ call.out.loop.attempts = Len(call.out.loop.trace)

\* a token issuance that succeeded at its second attempt after one wait of 1s,
\* followed by a recognition that failed all four attempts with waits of 1s,
\* 2s and 4s
C22_Witness ==
    /\ call.fn = "recognize" /\ call.retries_arg = MaxRetries
    /\ call.out.token_trace = <<"RequestException", "ok">> /\ call.out.token_waits = <<1>>
    /\ Len(call.out.ocr_trace) = MaxRetries /\ call.out.raised_in = "ocr"
    /\ call.out.ocr_waits = [j \in 1..MaxRetries - 1 |-> 2 ^ (j - 1)]

-----------------------------------------------------------------------------
(* C23 *)

\* call record c is of a recognize call that was issued a token
IssuedIn(c) == c.fn = "recognize" /\ c.out.expires_in >= 0

\* C23: a successful issuance caches the expiry (time the call began) +
\* max(0, reported ttl - 60), never earlier than the time the call began; a
\* token reported with a ttl of 60 or less is not reusable, and the next
\* recognize call requests a new one.
C23_GuardBand ==
    [][/\ (IsRecognize /\ IssuedIn(call')) =>
              /\ ~TokenFresh(ocr)
              /\ ocr'.token # ""
              /\ ocr'.expires_at_epoch = ocr.now + Max(0, call'.out.expires_in - 60)
              /\ ocr'.expires_at_epoch >= ocr.now
              /\ call'.out.expires_in <= 60 => ~TokenFresh(ocr')
       /\ (IsRecognize /\ IssuedIn(call) /\ call.out.expires_in <= 60) =>
              TokenRequests(call') # {}]_vars

\* a token reported with ttl 60 was cached at a time after 0 by a call made
\* while an earlier token, as short-lived, was in the cache
C23_Witness ==
    /\ IssuedIn(call) /\ call.out.expires_in = 60
    /\ ocr.now > 0 /\ ocr.expires_at_epoch = ocr.now
    /\ ~TokenFresh(ocr)

-----------------------------------------------------------------------------
(* C24 *)

\* text t is empty after trimming
Blank(t) == \A k \in 1..Len(t) : t[k] \in Whitespace

\* the first precondition a call with these arguments violates, "" for none
FirstViolated(c) ==
    CASE Blank(c.api_key) -> "api_key"
      [] Blank(c.ocr_text) -> "ocr_text"
      [] Blank(c.system_prompt) -> "system_prompt"
      [] Blank(c.user_prompt_template) -> "user_prompt_template"
      [] OTHER -> ""

\* C24: extract_title_sentence raises without sending a request when the API
\* key, the OCR text, the system prompt or the user prompt template is empty
\* after trimming, the first of them in that order naming the error; with all
\* four set it sends a request.
C24_Preconditions ==
    (call.fn = "extract_title_sentence" /\ call.retries_arg = 1 /\ call # NoCall) =>
        IF FirstViolated(call) # ""
        THEN /\ call.out.raised_in = FirstViolated(call)
             /\ call.out.loop = NoLoop /\ call.out.title = <<>>
        ELSE /\ call.out.raised_in \in {"", "request", "content"}
             /\ call.out.loop.attempts = 1

\* a call with a key set, a blank OCR text and no prompts raised for the OCR
\* text
C24_Witness ==
    /\ call.fn = "extract_title_sentence"
    /\ call.api_key = <<" ", "k", "\t">> /\ call.ocr_text = <<" ">>
    /\ call.system_prompt = <<>> /\ call.user_prompt_template = <<>>
    /\ call.out.raised_in = "ocr_text" /\ call.out.loop.attempts = 0

-----------------------------------------------------------------------------
(* C25 *)

\* C25: a frame number below 1 fails before any ffmpeg run; a first run that
\* times out or exits non-zero fails the call with no fallback; the fallback
\* runs only after a first run that succeeded with zero bytes, once, so that a
\* call makes at most two runs; and zero bytes from the fallback fail the call.
C25_FrameFallback ==
    call.fn = "extract_frame_as_png_bytes" =>
        /\ Len(call.out.invocations) <= 2
        /\ call.frame_number_1based < 1 =>
               call.out.raised = "frame_number" /\ call.out.invocations = <<>>
        /\ (call.out.invocations # <<>> /\ call.primary \in {"timeout", "nonzero"}) =>
               /\ call.out.invocations = <<"select">>
               /\ call.out.raised = IF call.primary = "timeout" THEN "timeout" ELSE "returncode"
        /\ (\E k \in 1..Len(call.out.invocations) : call.out.invocations[k] = "sseof") <=>
               (call.frame_number_1based >= 1 /\ call.has_ffmpeg /\ call.primary = "empty")
        /\ call.out.invocations \in {<<>>, <<"select">>, <<"select", "sseof">>}
        /\ (call.out.invocations = <<"select", "sseof">> /\ call.last = "empty") =>
               call.out.raised = "no_frame"

\* a call whose first run gave zero bytes and whose fallback gave zero bytes
\* too
C25_Witness ==
    /\ call.fn = "extract_frame_as_png_bytes" /\ call.frame_number_1based = 2
    /\ call.primary = "empty" /\ call.last = "empty"
    /\ call.out = Frame("no_frame", <<"select", "sseof">>)

-----------------------------------------------------------------------------
(* C26 *)

\* positions of the events of one kind of item i of run r
KindIdx(r, i, kind) == {p \in ItemIdx(r, i) : emitted[p].kind = kind}

\* the stages before the rename
EarlyStages == {"frame", "OCR", "DeepSeek"}

\* what the events of item i of processing run r say
C26_Item(r, i) ==
    /\ \A p \in KindIdx(r, i, "renamed") :
          /\ \E a \in KindIdx(r, i, "preview"), b \in KindIdx(r, i, "ocr"),
                c \in KindIdx(r, i, "title") :
                a < b /\ b < c /\ c < p /\ emitted[b].text # ""
          /\ ErrorIdx(r, i) = {}
    /\ \A e \in ErrorIdx(r, i) :
          emitted[e].error[1] \in EarlyStages =>
              /\ KindIdx(r, i, "renamed") = {} /\ KindIdx(r, i, "title") = {}
              /\ emitted[e].error[1] \in {"frame", "OCR"} => KindIdx(r, i, "ocr") = {}
              /\ emitted[e].error[1] = "frame" => KindIdx(r, i, "preview") = {}
              /\ \A p \in ItemIdx(r, i) : p > e => emitted[p].kind = "progress"
    /\ \A b \in KindIdx(r, i, "ocr") :
          (emitted[b].text = "" /\ KindIdx(r, i, "progress") # {}) =>
              \E e \in ErrorIdx(r, i) :
                  emitted[e].error = FailMessage("DeepSeek", "DeepSeekError")

\* a step of the processing thread that changes the directory reports the
\* rename of its item, and one that reports a failure leaves the directory
\* alone
C26_Step ==
    (worker.alive /\ worker.kind = "_run_worker" /\ emitted' # emitted) =>
        LET new == {p \in Len(emitted) + 1..Len(emitted') :
                       emitted'[p].run = worker.run /\ emitted'[p].item = worker.offset}
        IN /\ fs' # fs => \E p \in new : /\ emitted'[p].kind = "renamed"
                                          /\ emitted'[p].path \notin fs'
                                          /\ emitted'[p].new_name \in fs'
           /\ (\E p \in new : emitted'[p].kind = "error") => fs' = fs

\* C26: a processing run renames an item, and reports it, only after frame
\* extraction, OCR and title extraction succeeded for that item in that run;
\* when one of them fails, an empty OCR result failing the title extraction,
\* the item is failed, no later stage of it runs and the directory is left
\* alone.
C26_RenameAfterStages ==
    /\ [](\A r \in 1..Len(runs) :
             runs[r].kind = "_run_worker" =>
                 \A i \in 0..Len(runs[r].paths) - 1 : C26_Item(r, i))
    /\ [][C26_Step]_vars

\* the first item of a live run was renamed and the second failed at the
\* title stage on an empty OCR result
C26_Witness ==
    \E r \in 1..Len(runs) :
        /\ runs[r].kind = "_run_worker"
        /\ KindIdx(r, 0, "renamed") # {}
        /\ \E b \in KindIdx(r, 1, "ocr") : emitted[b].text = ""
        /\ \E e \in ErrorIdx(r, 1) : emitted[e].error = FailMessage("DeepSeek", "DeepSeekError")

-----------------------------------------------------------------------------
(* C27 *)

\* the thread of run r is inside item i
Current(r, i) ==
    /\ worker.alive /\ worker.run = r /\ worker.offset = i
    /\ worker.pc \in {"extract", "recognize", "title"}

\* the progress events of run r, item by item
C27_Inv(r) ==
    /\ \A i \in 0..Len(runs[r].paths) - 1 :
          LET P == {p \in ItemIdx(r, i) : emitted[p].kind = "progress"}
          IN /\ Cardinality(P) <= 1
             /\ \A p \in P : /\ emitted[p].value = i + 1
                             /\ \A q \in ItemIdx(r, i) : q <= p
             /\ (ItemIdx(r, i) # {} /\ ~Current(r, i)) => P # {}
    /\ \A p, q \in ProgressIdx(r) : p < q => emitted[p].value < emitted[q].value
    /\ \A d \in DoneIdx(r) :
          /\ Cardinality(ProgressIdx(r)) = emitted[d].item
          /\ \A p \in ProgressIdx(r) : p < d /\ emitted[p].value <= emitted[d].item
          /\ emitted[d].item > 0 =>
                \E p \in ProgressIdx(r) : emitted[p].value = emitted[d].item

\* the loop of a run that ends with no stop requested has gone through the
\* whole list; one that ends on a stop has gone through the items before it
C27_Step ==
    (worker.alive /\ worker.pc = "head" /\ worker'.pc = "exit") =>
        \E d \in Len(emitted) + 1..Len(emitted') :
            /\ emitted'[d].kind = "done" /\ emitted'[d].run = worker.run
            /\ emitted'[d].item = worker.offset
            /\ ~stop_event => emitted'[d].item = Len(runs[worker.run].paths)

\* C27: a run emits exactly one progress event for every item it starts,
\* after the item's other events, succeeded or failed, with the item's 1-based
\* position as value; the values of a run grow strictly, and the last one is n
\* after an uncancelled run of n items and k after a run cancelled after k
\* items.
C27_Progress ==
    /\ [](\A r \in 1..Len(runs) : C27_Inv(r))
    /\ [][C27_Step]_vars

\* a run over two or more items has ended on a stop after its first item,
\* which failed
C27_Witness ==
    \E r \in 1..Len(runs) : \E d \in DoneIdx(r) :
        /\ Len(runs[r].paths) >= 2 /\ emitted[d].item = 1
        /\ ErrorIdx(r, 0) # {}
        /\ Cardinality(ProgressIdx(r)) = 1

-----------------------------------------------------------------------------
(* C28 *)

\* event e is addressed to a row of a live batch run
Live(e) ==
    /\ e.run \in 1..Len(runs) /\ ~runs[e.run].cfg.dry_run
    /\ e.kind \notin {"progress", "done"}

\* the renamed events of live runs: the target is followed at once by the
\* item's final status, addressed to the new path
C28_Emitted ==
    \A p \in 1..Len(emitted) :
        (Live(emitted[p]) /\ emitted[p].kind = "renamed") =>
            /\ p < Len(emitted)
            /\ emitted[p + 1].kind = "status" /\ emitted[p + 1].status = "done"
            /\ emitted[p + 1].path = emitted[p].new_name
            /\ emitted[p + 1].run = emitted[p].run /\ emitted[p + 1].item = emitted[p].item
            /\ \A q \in ItemIdx(emitted[p].run, emitted[p].item) :
                  q > p + 1 => emitted[q].kind = "progress"

\* a renamed event is put after the rename on disk
C28_Put ==
    \A p \in Len(emitted) + 1..Len(emitted') :
        (emitted'[p].kind = "renamed" /\ emitted'[p].run \in 1..Len(runs)) =>
            /\ emitted'[p].path \in fs /\ emitted'[p].path \notin fs'
            /\ emitted'[p].new_name \in fs'

\* the timer tick handles the queue in order: every event of a live run finds
\* a row carrying its path, and the final status after a renamed event leaves
\* the row with the new path and the status "done"
C28_Handled ==
    (handled' = handled \o queue /\ queue # <<>>) =>
        \A k \in 1..Len(queue) :
            LET before == HandleAllRows(rows, SubSeq(queue, 1, k - 1))
                after == _handle_event(before, queue[k])
            IN  Live(queue[k]) =>
                    /\ RowIndex(before, queue[k].path) # 0
                    /\ (k > 1 /\ queue[k - 1].kind = "renamed" /\ queue[k].kind = "status") =>
                           \E i \in 1..Len(after) :
                               /\ after[i].path = queue[k - 1].new_name
                               /\ after[i].status = "done"

\* C28: in a live run a renamed event is emitted after the rename on disk and
\* before the item's final status, which is addressed to the new path; handled
\* in order, the events leave the item's row with the new path and a terminal
\* status, and every event of the run finds a row carrying its path.
C28_RenamedVisible ==
    /\ []C28_Emitted
    /\ [][C28_Put /\ C28_Handled]_vars

-----------------------------------------------------------------------------
(* C29 *)

\* every run but the one of the live worker has left its loop
C29_Inv ==
    \A r \in 1..Len(runs) :
        (worker.alive /\ worker.run = r) \/ DoneIdx(r) # {}

\* while a worker is alive no thread is started, the worker reference stays
\* on the same thread, the stop flag is not cleared, and the progress bar
\* changes only as the observer handles events
C29_Step ==
    worker.alive =>
        /\ runs' = runs
        /\ worker'.run = worker.run /\ worker'.kind = worker.kind
        /\ stop_event => stop_event'
        /\ progress'.maximum = progress.maximum
        /\ progress' # progress => handled' # handled

\* C29: at most one batch worker is alive at any time; a Start or Rename-all
\* requested while a worker is alive changes neither the stop flag, nor the
\* worker reference, nor the progress state.
C29_SingleWorker ==
    /\ []C29_Inv
    /\ [][/\ C29_Step
          /\ (worker.alive /\ (_start \/ _rename_all)) =>
                 UNCHANGED <<stop_event, worker, progress>>]_vars

\* a second run is inside an item with stop requested, the first run over
C29_Witness ==
    /\ Len(runs) = 2 /\ DoneIdx(1) # {}
    /\ worker.alive /\ worker.run = 2 /\ worker.pc = "recognize"
    /\ stop_event /\ progress.value > 0

-----------------------------------------------------------------------------
(* C30 *)

\* file name `name` carries index `index` padded to `index_padding`
Named(name, index, index_padding) ==
    IsPrefix(ZFill(Str(index), Max(1, index_padding)) \o <<"-">>, name)

\* the title events of run r
ProposalIdx(r) == {p \in RunIdx(r) : emitted[p].kind = "title"}

\* the names a batch run proposes: the item at position i of the list the run
\* started from gets start_index + i, and no two items the same index
C30_Runs ==
    \A r \in 1..Len(runs) : \A p \in ProposalIdx(r) :
        /\ emitted[p].item \in 0..Len(runs[r].paths) - 1
        /\ Named(emitted[p].new_name, runs[r].cfg.start_index + emitted[p].item,
                 runs[r].cfg.index_padding)
        /\ \A q \in ProposalIdx(r) :
              emitted[q].item # emitted[p].item =>
                  ~Named(emitted[q].new_name, runs[r].cfg.start_index + emitted[p].item,
                         runs[r].cfg.index_padding)

\* the single-item requests: the selected row at position i of the list gets
\* start_index + i
C30_Single ==
    /\ Len(title_threads') > Len(title_threads) =>
           LET t == title_threads'[Len(title_threads')]
           IN  t.index = ui.start_index + RowIndex(rows, t.src_path) - 1
    /\ (~worker.alive /\ worker' = worker /\ title_threads' = title_threads
            /\ budget' < budget) =>
           \A i \in 1..Len(rows) :
               rows'[i].new_name # rows[i].new_name =>
                   Named(rows'[i].new_name, ui.start_index + i - 1, ui.index_padding)

\* C30: the item at 0-based position i of the list is named with index
\* start_index + i, whatever the outcome of the items before it and dry run
\* or not; a failed item's index is not given to a later item, and no two
\* items of a run get the same index.
C30_IndexByPosition ==
    /\ []C30_Runs
    /\ [][C30_Single]_vars

\* a run started with start index 2 whose first item failed has proposed a
\* name with index 3 for its second item
C30_Witness ==
    \E r \in 1..Len(runs) :
        /\ runs[r].cfg.start_index = 2
        /\ ErrorIdx(r, 0) # {}
        /\ \E p \in ProposalIdx(r) :
              emitted[p].item = 1 /\ Named(emitted[p].new_name, 3, runs[r].cfg.index_padding)

-----------------------------------------------------------------------------
(* C31 *)

\* the renamed events of the batch runs
RenamedIdx(r) == {p \in RunIdx(r) : emitted[p].kind = "renamed"}

\* a step that changes the directory moves one existing file to a path that
\* does not exist
C31_Step ==
    fs' # fs =>
        \E old_path \in fs : \E target \in fs' \ fs :
            /\ fs' = (fs \ {old_path}) \cup {target}
            /\ Cardinality(fs') = Cardinality(fs)

\* the directory holds as many files as when the first run started, and no
\* two items of a run were renamed to the same path
C31_Inv ==
    \A r \in 1..Len(runs) :
        /\ Cardinality(fs) = Cardinality(runs[1].fs)
        /\ Cardinality(runs[r].fs) = Cardinality(runs[1].fs)
        /\ \A p, q \in RenamedIdx(r) :
              p # q => /\ emitted[p].new_name # emitted[q].new_name
                       /\ emitted[p].item # emitted[q].item

\* C31: with no change of the directory from outside, every rename of a live
\* run goes to a path that does not exist at that moment: no file is
\* overwritten, the directory holds as many files after the run as before,
\* and no two items end with the same path.
C31_NoFileLost ==
    /\ []C31_Inv
    /\ [][C31_Step]_vars

\* a live run has renamed an item whose computed target existed to the "_2"
\* candidate, and the file that carries the computed target is still there
C31_Witness ==
    \E r \in 1..Len(runs) : \E p \in RenamedIdx(r) : \E existing \in fs :
        /\ emitted[p].new_name = Candidate(existing, 2)
        /\ emitted[p].new_name \in fs
        /\ Cardinality(fs) = Cardinality(runs[1].fs)

-----------------------------------------------------------------------------
(* C32 *)

\* the target path the run r builds for the title event p, before
\* pick_non_conflicting_path
Built(r, p) ==
    build_target_path(emitted[p].path,
                      OrElse(runs[r].cfg.start_index, 1) + emitted[p].item,
                      IF runs[r].kind = "_run_rename_all"
                      THEN OrElse(runs[r].cfg.index_padding, 3)
                      ELSE runs[r].cfg.index_padding,
                      emitted[p].title)

\* C32: when the target path computed for an item equals the item's own
\* current path, the run proposes that very name (no "_2" suffix is added)
\* and the directory still holds the file under it, so a second run with the
\* same titles, start index and padding gives the names of the first.
C32_RerunKeepsNames ==
    \A r \in 1..Len(runs) : \A p \in ProposalIdx(r) :
        Built(r, p) = emitted[p].path =>
            /\ emitted[p].new_name = emitted[p].path
            /\ \A q \in RenamedIdx(r) :
                  emitted[q].item = emitted[p].item => emitted[q].new_name = emitted[p].path

-----------------------------------------------------------------------------
(* C33 *)

\* a step that starts a batch run finds no event of an earlier run in the
\* queue
C33_Start ==
    Len(runs') = Len(runs) + 1 =>
        \A k \in 1..Len(queue) : queue[k].run \notin 1..Len(runs)

\* the paths a run iterates over are those of files in the directory at its
\* start, and carry every rename of the earlier runs
C33_Paths ==
    \A r \in 1..Len(runs) :
        /\ \A i \in 1..Len(runs[r].paths) : runs[r].paths[i] \in runs[r].fs
        /\ \A s \in 1..r - 1 : \A p \in RenamedIdx(s) : \A i \in 1..Len(runs[r].paths) :
              runs[s].paths[i] = emitted[p].path /\ emitted[p].item = i - 1
                  => runs[r].paths[i] # runs[s].paths[i] \/ emitted[p].new_name = emitted[p].path

\* C33: a batch run never starts while events of a previous run are still
\* unhandled in the queue, so the paths its worker reads reflect every rename
\* the earlier runs performed on disk.
C33_NoStalePaths ==
    /\ []C33_Paths
    /\ [][C33_Start]_vars

-----------------------------------------------------------------------------
(* C34 *)

\* the stages of recognize in which the acquisition of a token fails
AcquisitionFailures == {"keys", "token", "token_reply"}

\* the stages of recognize after the token in which the call fails
RecognitionFailures == {"endpoint", "ocr", "error_code"}

\* the token cache of client c
Cache(c) == <<c.token, c.expires_at_epoch>>

\* C34: the token cache changes only when a token is issued: a recognize call
\* whose acquisition fails (no credentials, every attempt failed, a reply
\* that is not JSON or carries no access_token) leaves the client as it was,
\* a failure of the recognition after the token leaves the cache as the
\* token stage left it, a token that was fresh is fresh and unchanged after
\* any call, and after a failed acquisition the next call acquires again.
C34_CacheFrame ==
    [][IsRecognize =>
          /\ Cache(ocr') # Cache(ocr) =>
                /\ IssuedIn(call') /\ TokenRequests(call') # {}
                /\ call'.out.token_trace[Len(call'.out.token_trace)] = "ok"
          /\ call'.out.raised_in \in AcquisitionFailures =>
                /\ ocr' = ocr /\ ~IssuedIn(call') /\ OcrRequests(call') = {}
          /\ call'.out.raised_in \in RecognitionFailures =>
                /\ ocr'.token # ""
                /\ ~IssuedIn(call') => (ocr' = ocr /\ TokenFresh(ocr))
                /\ IssuedIn(call') =>
                      ocr'.expires_at_epoch = ocr.now + Max(0, call'.out.expires_in - 60)
          /\ TokenFresh(ocr) => (ocr' = ocr /\ TokenRequests(call') = {})
          /\ (call.fn = "recognize" /\ call.out.raised_in \in AcquisitionFailures) =>
                /\ ~TokenFresh(ocr)
                /\ call'.out.raised_in = "keys" \/ TokenRequests(call') # {}]_vars

\* a recognize call that reused the cached token and whose recognition
\* failed after every attempt: the token is still fresh
C34_Witness ==
    /\ call.fn = "recognize" /\ call.out.raised_in = "ocr"
    /\ TokenRequests(call) = {} /\ Cardinality(OcrRequests(call)) = call.retries
    /\ TokenFresh(ocr) /\ ocr.now > 0

=============================================================================
